---------------------------- MODULE Spec2Model ----------------------------
(***************************************************************************)
(* Model of the NanoOWL v3 streaming relay:                                *)
(*   - MJPEGForwarder (pi_server.py): ingest loop, reconnect state         *)
(*     machine, boundary scanning, locked fan-out to the client registry;  *)
(*   - the HTTP gateway of PiServer.start_web_server (a socketserver       *)
(*     TCPServer) and its request handlers;                                *)
(*   - the per-client stream handlers of the camera and detection workers. *)
(* A byte string is a sequence of tokens.  The boundary token              *)
(* b"--frame\r\n" is the two tokens "--frame", "CRLF", so that a recv()    *)
(* can end inside it and a payload can run into it.                        *)
(***************************************************************************)
EXTENDS Integers, Sequences, FiniteSets, TLC

\* ------------------------------------------------------------- bounds ---
\* chunks one upstream sends in a behaviour
MaxChunks == 3
\* frames a worker's camera delivers in a behaviour
MaxFrames == 3
\* clients that connect to a worker's stream server in a behaviour
MaxClients == 2
\* HTTP requests the gateway is offered in a behaviour
MaxRequests == 2
\* connections the command channel accepts in a behaviour
MaxCmds == 2

\* number of forwarders PiServer.start creates: len(CAMERA_PORTS)
NumCams == 2
\* serve_camera_stream: wait_time < 10 in steps of 0.5
WaitPolls == 20
\* DetectionWorker.stream_to_client: if bad_reads >= 10
BadReadLimit == 10

Cams == 0..(NumCams - 1)
Requests == 1..MaxRequests
Workers == {"camera", "detection"}
Clients == 1..MaxClients

\* ------------------------------------------------------- wire format ---
Boundary == <<"--frame", "CRLF">>

DigitChars == <<"0", "1", "2", "3", "4", "5", "6", "7", "8", "9">>

\* str(n) of a non-negative int, as in f"{len(jpeg_data)}"
RECURSIVE Digits(_)
Digits(n) ==
    IF n < 10 THEN <<DigitChars[n + 1]>>
    ELSE Digits(n \div 10) \o <<DigitChars[(n % 10) + 1]>>

\* int(...) of a run of decimal digits
IsDigit(t) == \E d \in 1..10 : DigitChars[d] = t

DigitValue(t) == (CHOOSE d \in 1..10 : DigitChars[d] = t) - 1

RECURSIVE Decimal(_)
Decimal(ds) ==
    IF ds = <<>> THEN 0
    ELSE 10 * Decimal(SubSeq(ds, 1, Len(ds) - 1)) + DigitValue(ds[Len(ds)])

\* number of digit tokens of u from position i on
RECURSIVE DigitRun(_, _)
DigitRun(u, i) ==
    IF i <= Len(u) /\ IsDigit(u[i]) THEN 1 + DigitRun(u, i + 1) ELSE 0

\* header = b"--frame\r\nContent-Type: image/jpeg\r\n"
\* header += f"Content-Length: {n}\r\n\r\n".encode()
Header(n) ==
    Boundary \o <<"Content-Type: image/jpeg", "CRLF">>
             \o <<"Content-Length: ">> \o Digits(n) \o <<"CRLF", "CRLF">>

\* what an upstream that declares length n puts on the wire for payload p
WireChunk(n, p) == Header(n) \o p \o <<"CRLF">>

\* variant: the declared length counts the trailing CRLF as well
UnitCountsTrailer(jpeg_data) == WireChunk(Len(jpeg_data) + 1, jpeg_data)

\* client_socket.sendall(header + jpeg_data + b"\r\n")
Unit(jpeg_data) == WireChunk(Len(jpeg_data), jpeg_data)

\* ------------------------------------------------- boundary scanning ---
MatchAt(buf, i) ==
    /\ i >= 1
    /\ i + Len(Boundary) - 1 <= Len(buf)
    /\ SubSeq(buf, i, i + Len(Boundary) - 1) = Boundary

\* buffer.find(b"--frame\r\n", from): first match at or after from (1-based),
\* 0 when there is none (Python's -1)
Find(buf, from) ==
    LET S == {i \in from..Len(buf) : MatchAt(buf, i)}
    IN  IF S = {} THEN 0 ELSE CHOOSE i \in S : \A j \in S : i <= j

\* start = buffer.find(tok); next_frame = buffer.find(tok, start + 9)
NextFrame(buf) == Find(buf, Find(buf, 1) + Len(Boundary))

\* the inner while loop delimits a frame: tok in buffer and next_frame != -1
HasFrame(buf) == Find(buf, 1) # 0 /\ NextFrame(buf) # 0

\* variant: the frame is cut from the head of the buffer
FrameFromBufferHead(buf) == SubSeq(buf, 1, NextFrame(buf) - 1)

\* frame_data = buffer[start:next_frame]
FrameData(buf) == SubSeq(buf, Find(buf, 1), NextFrame(buf) - 1)

\* variant: the rest starts after the next boundary token
RestAfterToken(buf) == SubSeq(buf, NextFrame(buf) + Len(Boundary), Len(buf))

\* buffer = buffer[next_frame:]
Rest(buf) == SubSeq(buf, NextFrame(buf), Len(buf))


\* ------------------------------------------------------------- state ---
VARIABLES
    \* MJPEGForwarder fields, one forwarder per camera
    running, connected, jetson_socket, clients, lock,
    \* forward_frames: position and locals
    fpc, buffer, frame_data, idx, dead_clients,
    \* the upstream TCP connection: bytes in flight, upstream closed its end
    wire, upEOF,
    \* PiServer.running, the HTTP server, the request it is handling
    srv_running, httpd, serving,
    \* per HTTP request: handler position, forwarder used, wait_time (in
    \* polls of 0.5 s), response status, wfile closed
    hpc, hcam, wait_time, response, wclosed,
    \* PiServer.stop(): position, forwarder being stopped
    pstop, stop_i,
    \* history: chunks sent on the current upstream connection and their
    \* number over all connections, frames delimited so far, their number
    \* at the last connect, frames written to each wfile, and the registry
    \* events of each wfile
    sent, nSent, ingested, connBase, wrote, joinedAt, nAdded, nRemoved,
    failed, lateWrite

regVars == <<clients, lock>>
locVars == <<buffer, frame_data, idx, dead_clients>>
upVars  == <<wire, upEOF, sent, nSent>>
gwVars  == <<srv_running, httpd, serving>>
reqVars == <<hpc, hcam, wait_time, response, wclosed>>
stopVars == <<pstop, stop_i>>
logVars == <<ingested, connBase, wrote, joinedAt, nAdded, nRemoved, failed,
             lateWrite>>
hubVars == <<running, connected, jetson_socket, fpc, regVars, locVars,
             upVars, gwVars, reqVars, stopVars, logVars>>

\* --- the workers (camera_worker.py, detection_worker.py) ---
VARIABLES
    \* CameraWorker: running, the camera (opened or not), camera_lock (0 or
    \* the client whose handler holds it), and per client handler its
    \* position, frame and jpeg_data
    cw_running, cw_camera, camera_lock, cpc, cframe, cjpeg,
    \* DetectionWorker: running, and per client handler its position, frame,
    \* jpeg_data and bad_reads
    dw_running, dpc, dframe, djpeg, bad_reads,
    \* frames each camera has delivered so far
    ccount, dcount,
    \* history: the last unit each handler wrote and the encoded frame it
    \* was made from, and the frames each client has been sent so far
    sent_unit, sent_jpeg, got,
    \* DetectionWorker: per handler the labels of its last predictor call
    dlabels,
    \* DetectionWorker command channel: prompt_text and prompts, the position
    \* of the command loop, the connections accepted so far, the data read
    \* from the latest one and the response about to be written
    prompt_text, prompts, kpc, conn, data, reply,
    \* per command connection: the responses written, the last of them and
    \* its state (not accepted yet, open, closed by the server, or lost: a
    \* write to it failed)
    nresp, resp, cstat,
    \* history: the text of the last set_prompt answered OK, until the next
    \* set_prompt is dispatched
    acked,
    \* the two workers are processes of their own that share no state: the
    \* one a behaviour follows
    proc

\* --- the worker supervisor (pi_server.py, controller.py) ---
VARIABLES
    \* what triggered the supervision ("off": nothing did), the state of the
    \* worker ports, the position of the supervisor, the index of the port
    \* being probed, the ports probed in the current liveness check and the
    \* result of the last completed one
    trigger, port_state, spc, pidx, probed, verdict,
    \* history: remote start commands issued, liveness checks completed
    \* after the first of them, and the outcome reported
    nissued, rechecks, reported

supVars == <<trigger, port_state, spc, pidx, probed, verdict, nissued,
             rechecks, reported>>

\* --- GET /set_prompt (pi_server.py) ---
VARIABLES
    \* the handler of the current /set_prompt request: its position, the
    \* text of the query, what send_prompt_to_jetson read from the command
    \* channel, and the status and body of the HTTP response
    qpc, qtext, qresp, http_status, http_body,
    \* history: /set_prompt requests so far, command connections the hub
    \* has opened, and the text sent on each of them
    qn, qconns, qsent

qVars == <<qpc, qtext, qresp, http_status, http_body, qn, qconns, qsent>>

\* --- the hub process (pi_server.py __main__) ---
VARIABLES
    \* position of the main thread in PiServer.start, why the process ended,
    \* and (history) how many request handlers have raised
    mpc, exit_cause, herrs

mVars == <<mpc, exit_cause, herrs>>

\* --- worker start-up (camera_worker.py, detection_worker.py: run) ---
VARIABLES
    \* how each capture strategy behaves on this machine: whether it opens,
    \* and which of the warm-up reads is its first successful one (0: none)
    backends,
    \* init_camera: position, index of the strategy being opened, the
    \* strategy self.camera (or the MJPEG socket) stands for, warm-up reads
    \* done, strategies opened so far (history) and the value returned
    ipc, sidx, source, warm_reads, tried, init_ok,
    \* run(): position, and whether the stream port is bound
    rpc, bound

iVars == <<backends, ipc, sidx, source, warm_reads, tried, init_ok>>
runVars == <<iVars, rpc, bound>>

\* --- the MJPEG input of the detection worker (read_mjpeg_frame) ---
VARIABLES
    \* self.mjpeg_buffer, the locals rest and length of the call under way
    \* and its position
    mjpeg_buffer, rest, length, mjpc,
    \* the raw feed: bytes in flight from the camera worker
    feed,
    \* history: the payloads the camera worker has framed, the payloads the
    \* calls have returned and the number of calls that have returned
    framed, extracted, ncalls,
    \* --- DetectionWorker.detect_objects, drawing the detections ---
    \* per handler the value of self.prompts read when the box of the cycle is
    \* named, and the label given to the box
    naming, label_str,
    \* --- the peers of the command port ---
    \* per command connection, whether its peer has sent its envelope
    csent

lblVars == <<naming, label_str>>
peerVars == <<csent>>
mjVars == <<mjpeg_buffer, rest, length, mjpc, feed, framed, extracted, ncalls>>
extVars == <<supVars, qVars, mVars, runVars, mjVars, lblVars, peerVars>>

cmdVars == <<prompt_text, prompts, kpc, conn, data, reply, nresp, resp,
             cstat, acked>>
wrkCore == <<cw_running, cw_camera, camera_lock, cpc, cframe, cjpeg,
             dw_running, dpc, dframe, djpeg, bad_reads, ccount, dcount,
             sent_unit, sent_jpeg, got, dlabels, cmdVars, proc>>
wrkVars == <<wrkCore, extVars>>
supOthers ==
    <<hubVars, wrkCore, qVars, mVars, runVars, mjVars, lblVars, peerVars>>
qOthers ==
    <<hubVars, wrkCore, supVars, mVars, runVars, mjVars, lblVars, peerVars>>
mOthers ==
    <<hubVars, wrkCore, supVars, qVars, runVars, mjVars, lblVars, peerVars>>
runOthers ==
    <<hubVars, wrkCore, supVars, qVars, mVars, mjVars, lblVars, peerVars>>
mjOthers ==
    <<hubVars, wrkCore, supVars, qVars, mVars, runVars, lblVars, peerVars>>
peerOthers ==
    <<hubVars, wrkCore, supVars, qVars, mVars, runVars, mjVars, lblVars>>

\* MJPEGForwarder.__init__ for every camera, PiServer.__init__, no request yet
HubFields ==
    /\ running = [c \in Cams |-> TRUE]
    /\ connected = [c \in Cams |-> FALSE]
    /\ jetson_socket = [c \in Cams |-> "None"]
    /\ clients = [c \in Cams |-> <<>>]
    /\ lock = [c \in Cams |-> "free"]
    /\ fpc = [c \in Cams |-> "top"]
    /\ buffer = [c \in Cams |-> <<>>]
    /\ frame_data = [c \in Cams |-> <<>>]
    /\ idx = [c \in Cams |-> 1]
    /\ dead_clients = [c \in Cams |-> <<>>]
    /\ wire = [c \in Cams |-> <<>>]
    /\ upEOF = [c \in Cams |-> FALSE]
    /\ srv_running = TRUE
    /\ httpd = "serving"
    /\ serving = 0
    /\ hpc = [r \in Requests |-> "new"]
    /\ hcam = [r \in Requests |-> 0]
    /\ wait_time = [r \in Requests |-> 0]
    /\ response = [r \in Requests |-> "none"]
    /\ wclosed = [r \in Requests |-> FALSE]
    /\ pstop = "run"
    /\ stop_i = 0
    /\ sent = [c \in Cams |-> <<>>]
    /\ nSent = 0
    /\ ingested = [c \in Cams |-> <<>>]
    /\ connBase = [c \in Cams |-> 0]
    /\ wrote = [r \in Requests |-> <<>>]
    /\ joinedAt = [r \in Requests |-> 0]
    /\ nAdded = [r \in Requests |-> 0]
    /\ nRemoved = [r \in Requests |-> 0]
    /\ failed = [r \in Requests |-> FALSE]
    /\ lateWrite = [r \in Requests |-> FALSE]

\* ------------------------------------------------ the supervisor ------
\* CAMERA_PORTS of pi_server.py and the ports list of the controller's
\* check_jetson_workers
CAMERA_PORTS == <<9000, 9001>>
ControllerPorts == <<9000, 9001, 9002>>
AllPorts == {9000, 9001, 9002}

\* a port accepts the connection (connect_ex returns 0), refuses it or times
\* out (another return value), or the probe raises
PortStates == [AllPorts -> {"open", "closed", "error"}]

\* the paths that lead to a remote start: PiServer.start at startup,
\* GET /start_jetson, the controller's start_jetson_workers
Triggers == {"startup", "http", "controller"}

PortList == IF trigger = "controller" THEN ControllerPorts ELSE CAMERA_PORTS

\* the None of "return True, None"
NoPort == 0
NoVerdict == [healthy |-> FALSE, port |-> NoPort]

\* no supervision under way
SupervisorIdle ==
    /\ trigger = "off"
    /\ port_state = [p \in AllPorts |-> "open"]
    /\ spc = "off"
    /\ pidx = 1
    /\ probed = <<>>
    /\ verdict = NoVerdict
    /\ nissued = 0
    /\ rechecks = 0
    /\ reported = "nothing"

\* one of the paths is entered, the worker ports in any state
SupervisorInit ==
    /\ trigger \in Triggers
    /\ port_state \in PortStates
    /\ spc = "begin"
    /\ pidx = 1
    /\ probed = <<>>
    /\ verdict = NoVerdict
    /\ nissued = 0
    /\ rechecks = 0
    /\ reported = "nothing"

\* PiServer.start and the controller's start_jetson_workers begin with
\* check_jetson_workers; Handler.start_jetson calls start_jetson_workers at
\* once
S_Begin ==
    /\ spc = "begin"
    /\ spc' = IF trigger = "http" THEN "issue" ELSE "probe"
    /\ UNCHANGED <<trigger, port_state, pidx, probed, verdict, nissued,
                   rechecks, reported, supOthers>>

\* variant: every port is probed and the last failing one is reported
ReportsLastFailing ==
    /\ spc = "probe"
    /\ LET port == PortList[pidx]
           bad == port_state[port] # "open"
           last == pidx = Len(PortList)
       IN  /\ probed' = Append(probed, port)
           /\ verdict' = IF bad THEN [healthy |-> FALSE, port |-> port]
                         ELSE IF pidx = 1 THEN [healthy |-> TRUE, port |-> NoPort]
                         ELSE verdict
           /\ IF last
              THEN /\ spc' = "checked"
                   /\ rechecks' = IF nissued > 0 THEN rechecks + 1 ELSE rechecks
                   /\ UNCHANGED pidx
              ELSE /\ pidx' = pidx + 1
                   /\ UNCHANGED <<spc, rechecks>>
    /\ UNCHANGED <<trigger, port_state, nissued, reported, supOthers>>

\* check_jetson_workers, one pass of "for port in ...": connect_ex with a
\* 2 s timeout; a result other than 0 or an exception returns (False, port),
\* the end of the list returns (True, None)
S_Probe ==
    /\ spc = "probe"
    /\ LET port == PortList[pidx]
           bad == port_state[port] # "open"
           last == pidx = Len(PortList)
       IN  /\ probed' = Append(probed, port)
           /\ IF bad \/ last
              THEN /\ verdict' = IF bad THEN [healthy |-> FALSE, port |-> port]
                                 ELSE [healthy |-> TRUE, port |-> NoPort]
                   /\ spc' = "checked"
                   /\ rechecks' = IF nissued > 0 THEN rechecks + 1 ELSE rechecks
                   /\ UNCHANGED pidx
              ELSE /\ pidx' = pidx + 1
                   /\ UNCHANGED <<verdict, spc, rechecks>>
    /\ UNCHANGED <<trigger, port_state, nissued, reported, supOthers>>

\* the caller looks at the result: before any start, healthy ends the path
\* ("workers are running") and unhealthy goes on to the remote start; after
\* the start the result is what is logged, and the path ends
S_Checked ==
    /\ spc = "checked"
    /\ IF nissued = 0
       THEN IF verdict.healthy
            THEN spc' = "done" /\ UNCHANGED reported
            ELSE spc' = "issue" /\ UNCHANGED reported
       ELSE /\ spc' = "done"
            /\ reported' = IF verdict.healthy THEN "success" ELSE "failure"
    /\ UNCHANGED <<trigger, port_state, pidx, probed, verdict, nissued,
                   rechecks, supOthers>>

\* start_jetson_workers: subprocess.Popen of the ssh command (exec_command
\* in the controller); it returns at once.  At startup and in the controller
\* a command that was sent is followed by the wait, a failure is logged;
\* Handler.start_jetson answers 200 or 500 by that return value alone
S_Issue(ok) ==
    /\ spc = "issue"
    /\ nissued' = IF ok THEN nissued + 1 ELSE nissued
    /\ IF trigger = "http"
       THEN /\ spc' = "done"
            /\ reported' = IF ok THEN "success" ELSE "failure"
       ELSE IF ok
       THEN spc' = "wait" /\ UNCHANGED reported
       ELSE spc' = "done" /\ reported' = "failure"
    /\ UNCHANGED <<trigger, port_state, pidx, probed, verdict, rechecks,
                   supOthers>>

\* time.sleep(10), during which the workers may have come up or not; then
\* check_jetson_workers is called again
S_Wait(ps) ==
    /\ spc = "wait"
    /\ port_state' = ps
    /\ spc' = "probe"
    /\ pidx' = 1
    /\ probed' = <<>>
    /\ UNCHANGED <<trigger, verdict, nissued, rechecks, reported, supOthers>>

SupervisorNext ==
    \/ S_Begin
    \/ S_Probe
    \/ S_Checked
    \/ \E ok \in BOOLEAN : S_Issue(ok)
    \/ \E ps \in PortStates : S_Wait(ps)

\* ------------------------------------------------ GET /set_prompt -----
\* no /set_prompt request yet
PromptIdle ==
    /\ qpc = "idle"
    /\ qtext = <<>>
    /\ qresp = "None"
    /\ http_status = "none"
    /\ http_body = "none"
    /\ qn = 0
    /\ qconns = 0
    /\ qsent = <<>>

\* do_GET for /set_prompt?text=T with a non-empty T (an empty one is
\* answered 400 at once): send_prompt_to_jetson connects to the command port
\* and sends json.dumps({"cmd": "set_prompt", "text": text}) in one sendall
Q_Send(t) ==
    /\ qpc \in {"idle", "done"}
    /\ qn < MaxCmds
    /\ t # <<>>
    /\ qn' = qn + 1
    /\ qconns' = qconns + 1
    /\ qsent' = Append(qsent, t)
    /\ qtext' = t
    /\ qresp' = "None"
    /\ http_status' = "none"
    /\ http_body' = "none"
    /\ qpc' = "sent"
    /\ UNCHANGED qOthers

\* what the worker's one recv(4096) returns of that payload: all of it, or,
\* for a payload longer than 4096 bytes or one that arrives in pieces, a
\* part of it, which is no JSON
Delivered(t) ==
    {[kind |-> "set_prompt", text |-> t], [kind |-> "not_json", text |-> <<>>]}

\* resp = sock.recv(1024) returns the worker's response, sock.close(), and
\* the handler answers by resp.strip().upper().startswith(b'OK'): 200
\* "Prompt updated" or 500 "Failed to update prompt"; a failed connect, a
\* timeout (3 s) or another exception gives False and the same 500
Q_Recv(ok) ==
    /\ qpc = "sent"
    /\ IF ok
       THEN /\ kpc \in {"close", "accept"} /\ conn = qn /\ nresp[conn] = 1
            /\ qresp' = resp[conn]
            /\ http_status' = IF resp[conn] = "OK" THEN "200" ELSE "500"
            /\ http_body' = IF resp[conn] = "OK" THEN "Prompt updated"
                            ELSE "Failed to update prompt"
       ELSE /\ qresp' = "None"
            /\ http_status' = "500"
            /\ http_body' = "Failed to update prompt"
    /\ qpc' = "done"
    /\ UNCHANGED <<qtext, qn, qconns, qsent, qOthers>>

\* ------------------------------------------------ the hub process ----
\* the main thread is not followed
MainIdle ==
    /\ mpc = "off"
    /\ exit_cause = "none"
    /\ herrs = 0

\* __main__: server = PiServer(); server.start() begins with the liveness
\* check of the supervisor
MainInit ==
    /\ mpc = "check"
    /\ exit_cause = "none"
    /\ herrs = 0

\* start(): whatever the liveness check and the remote start gave (they are
\* only logged), the forwarders are started, each on a daemon thread
M_Forwarders ==
    /\ mpc = "check"
    /\ spc = "done"
    /\ mpc' = "bind"
    /\ UNCHANGED <<exit_cause, herrs, mOthers>>

\* start_web_server: ReusableTCPServer((PI_IP, WEB_PORT), Handler); an
\* OSError of the bind is logged and raised again, start() lets it through
\* and __main__ catches KeyboardInterrupt only: the main thread ends with
\* the exception and the process with it, the forwarders being daemons
M_Bind(ok) ==
    /\ mpc = "bind"
    /\ IF ok
       THEN /\ mpc' = "serve"
            /\ UNCHANGED exit_cause
       ELSE /\ mpc' = "exited"
            /\ exit_cause' = "OSError"
    /\ UNCHANGED <<herrs, mOthers>>

\* an exception in a request handler is caught by socketserver
\* (handle_error) and serve_forever goes on
M_HandlerError ==
    /\ mpc = "serve"
    /\ herrs < MaxRequests
    /\ herrs' = herrs + 1
    /\ UNCHANGED <<mpc, exit_cause, mOthers>>

\* an exception out of serve_forever itself is logged, the server is
\* closed, start() returns and __main__ ends
M_ServeError ==
    /\ mpc = "serve"
    /\ mpc' = "exited"
    /\ exit_cause' = "returned"
    /\ UNCHANGED <<herrs, mOthers>>

\* KeyboardInterrupt anywhere in start(): __main__ logs, calls
\* server.stop() and ends
M_Interrupt ==
    /\ mpc \in {"check", "bind", "serve"}
    /\ mpc' = "exited"
    /\ exit_cause' = "signal"
    /\ UNCHANGED <<herrs, mOthers>>

\* ------------------------------------------------ worker start-up ----
\* the capture strategies of the Linux path, in the order init_camera tries
\* them: the camera worker opens GStreamer, then V4L2, then the default
\* backend; the detection worker GStreamer, then the default backend, and
\* has the MJPEG feed of the camera worker as its last resort
CameraStrategies == <<"gstreamer", "v4l2", "default">>
DirectStrategies == <<"gstreamer", "default">>
DetectionStrategies == <<"gstreamer", "default", "mjpeg">>
StrategyNames == {"gstreamer", "v4l2", "default", "mjpeg"}

\* "for _ in range(3)": the warm-up reads init_camera allows
WarmupReads == 3

\* what a strategy can do on a machine: open or not, and deliver its first
\* frame at the first or the last warm-up read, or at none of them
Behaviours == [opens : BOOLEAN, warm : {0, 1, WarmupReads}]

\* the strategy list of the worker that is starting
StrategiesOf(w) ==
    IF w = "camera" THEN CameraStrategies ELSE DetectionStrategies

\* the strategies init_camera opens with cv2.VideoCapture, one after the other
OpenedBy(w) == IF w = "camera" THEN CameraStrategies ELSE DirectStrategies

\* the worker is past run()'s start-up: source selected, port bound
RunIdle ==
    /\ backends = [s \in StrategyNames |-> [opens |-> TRUE, warm |-> 1]]
    /\ ipc = "done"
    /\ sidx = 1
    /\ source = "gstreamer"
    /\ warm_reads = 1
    /\ tried = {"gstreamer"}
    /\ init_ok = TRUE
    /\ rpc = "accept"
    /\ bound = TRUE

\* run() entered on some machine: init_camera about to open the first
\* strategy
RunInit ==
    /\ backends \in [StrategyNames -> Behaviours]
    /\ \A s \in StrategyNames :
          (\A i \in DOMAIN StrategiesOf(proc) : StrategiesOf(proc)[i] # s) =>
              backends[s] = [opens |-> FALSE, warm |-> 0]
    /\ ipc = "open"
    /\ sidx = 1
    /\ source = "none"
    /\ warm_reads = 0
    /\ tried = {}
    /\ init_ok = FALSE
    /\ rpc = "init"
    /\ bound = FALSE

\* init_camera: cv2.VideoCapture of the next strategy and isOpened().  The
\* first strategy that opens becomes self.camera.  When none opens, the
\* camera worker raises "Failed to open camera!" and returns False, the
\* detection worker goes on to the MJPEG input.
I_Open ==
    /\ ipc = "open"
    /\ LET s == OpenedBy(proc)[sidx]
       IN /\ tried' = tried \cup {s}
          /\ IF backends[s].opens
             THEN /\ source' = s
                  /\ ipc' = "warm"
                  /\ UNCHANGED <<sidx, init_ok>>
             ELSE IF sidx < Len(OpenedBy(proc))
             THEN /\ sidx' = sidx + 1
                  /\ UNCHANGED <<source, ipc, init_ok>>
             ELSE /\ ipc' = IF proc = "camera" THEN "failed" ELSE "mjpeg"
                  /\ init_ok' = FALSE
                  /\ UNCHANGED <<source, sidx>>
    /\ UNCHANGED <<backends, warm_reads, rpc, bound, runOthers>>

\* init_camera: up to 3 warm-up reads of self.camera, stopping at the first
\* that succeeds.  When all fail, the camera worker raises "Camera opened
\* but failed to read frames" and returns False without opening another
\* strategy; the detection worker releases the capture and goes on to the
\* MJPEG input, whatever strategies it has not opened yet.
I_Warm ==
    /\ ipc = "warm"
    /\ LET w == backends[source].warm
       IN IF w >= 1
          THEN /\ warm_reads' = w
               /\ ipc' = "done"
               /\ init_ok' = TRUE
               /\ UNCHANGED source
          ELSE /\ warm_reads' = WarmupReads
               /\ init_ok' = FALSE
               /\ IF proc = "camera"
                  THEN /\ ipc' = "failed"
                       /\ UNCHANGED source
                  ELSE /\ ipc' = "mjpeg"
                       /\ source' = "none"
    /\ UNCHANGED <<backends, sidx, tried, rpc, bound, runOthers>>

\* init_mjpeg_input: connect to the raw feed; the connect alone decides, no
\* frame is read.  A failure raises "Failed to open camera directly or via
\* MJPEG input!" and init_camera returns False.
I_Mjpeg ==
    /\ ipc = "mjpeg"
    /\ tried' = tried \cup {"mjpeg"}
    /\ warm_reads' = 0
    /\ IF backends["mjpeg"].opens
       THEN /\ source' = "mjpeg"
            /\ ipc' = "done"
            /\ init_ok' = TRUE
       ELSE /\ source' = "none"
            /\ ipc' = "failed"
            /\ init_ok' = FALSE
    /\ UNCHANGED <<backends, sidx, rpc, bound, runOthers>>

\* variant: run() goes on to start_server whatever init_camera returned
IgnoresInitFailure ==
    /\ rpc = "init"
    /\ ipc \in {"done", "failed"}
    /\ rpc' = "start_server"
    /\ UNCHANGED <<iVars, bound, runOthers>>

\* run(): "if not self.init_camera(): ... return"
R_Init ==
    /\ rpc = "init"
    /\ ipc \in {"done", "failed"}
    /\ rpc' = IF init_ok THEN "start_server" ELSE "returned"
    /\ UNCHANGED <<iVars, bound, runOthers>>

\* run(): "if not self.start_server(): ... return"; start_server binds the
\* stream port and listens, or returns False on any exception
R_StartServer(ok) ==
    /\ rpc = "start_server"
    /\ bound' = ok
    /\ rpc' = IF ok THEN "accept" ELSE "returned"
    /\ UNCHANGED <<iVars, runOthers>>

\* MJPEGForwarder.__init__ for every camera, PiServer.__init__, no request
\* yet, the supervisor idle
\* DetectionWorker.__init__: mjpeg_buffer = b"", no call of read_mjpeg_frame
MjpegIdle ==
    /\ mjpeg_buffer = <<>>
    /\ rest = <<>>
    /\ length = 0
    /\ mjpc = "idle"
    /\ feed = <<>>
    /\ framed = <<>>
    /\ extracted = <<>>
    /\ ncalls = 0

\* detections = []: no box named
NoLabel == <<"None">>

\* no detection drawn yet
LabelIdle ==
    /\ naming = [k \in 1..MaxClients |-> <<>>]
    /\ label_str = [k \in 1..MaxClients |-> NoLabel]

\* no peer of the command port has sent anything
PeerIdle == csent = [c \in 1..MaxCmds |-> FALSE]

HubInit ==
    /\ HubFields /\ SupervisorIdle /\ PromptIdle /\ MainIdle /\ RunIdle
    /\ MjpegIdle /\ LabelIdle /\ PeerIdle

\* ------------------------------------------- MJPEGForwarder.forward_frames
\* variant: the loop is left after a failure
GivesUp(c) == "done"

\* "if self.running: time.sleep(5)", else back to the outer while
AfterFailure(c) == IF running[c] THEN "sleep" ELSE "top"

\* variant: the flag is not cleared when the connection is given up
KeepsConnected(c) ==
    /\ jetson_socket' = [jetson_socket EXCEPT ![c] = "None"]
    /\ fpc' = [fpc EXCEPT ![c] = AfterFailure(c)]
    /\ wire' = [wire EXCEPT ![c] = <<>>]
    /\ upEOF' = [upEOF EXCEPT ![c] = FALSE]
    /\ sent' = [sent EXCEPT ![c] = <<>>]
    /\ UNCHANGED <<connected, nSent>>

\* the except and finally blocks: connected = False, the socket closed and
\* set to None (the connection and what was in flight on it are gone)
Cleanup(c) ==
    /\ connected' = [connected EXCEPT ![c] = FALSE]
    /\ jetson_socket' = [jetson_socket EXCEPT ![c] = "None"]
    /\ fpc' = [fpc EXCEPT ![c] = AfterFailure(c)]
    /\ wire' = [wire EXCEPT ![c] = <<>>]
    /\ upEOF' = [upEOF EXCEPT ![c] = FALSE]
    /\ sent' = [sent EXCEPT ![c] = <<>>]
    /\ UNCHANGED nSent

\* outer "while self.running:"
F_Top(c) ==
    /\ fpc[c] = "top"
    /\ fpc' = [fpc EXCEPT ![c] = IF running[c] THEN "create" ELSE "done"]
    /\ UNCHANGED <<running, connected, jetson_socket, regVars, locVars,
                   upVars, gwVars, reqVars, stopVars, logVars>>
    /\ UNCHANGED wrkVars

\* self.jetson_socket = socket.socket(...); settimeout(5)
F_Create(c) ==
    /\ fpc[c] = "create"
    /\ jetson_socket' = [jetson_socket EXCEPT ![c] = "created"]
    /\ fpc' = [fpc EXCEPT ![c] = "connecting"]
    /\ UNCHANGED <<running, connected, regVars, locVars, upVars, gwVars,
                   reqVars, stopVars, logVars>>
    /\ UNCHANGED wrkVars

\* self.jetson_socket.connect(...) returns: the connection is established
F_ConnectOk(c) ==
    /\ fpc[c] = "connecting"
    /\ jetson_socket[c] = "created"
    /\ jetson_socket' = [jetson_socket EXCEPT ![c] = "connected"]
    /\ fpc' = [fpc EXCEPT ![c] = "connected_ok"]
    /\ UNCHANGED <<running, connected, regVars, locVars, upVars, gwVars,
                   reqVars, stopVars, logVars>>
    /\ UNCHANGED wrkVars

\* connect() raises (refused, timed out, socket closed by stop())
F_ConnectFail(c) ==
    /\ fpc[c] = "connecting"
    /\ Cleanup(c)
    /\ UNCHANGED <<running, regVars, locVars, gwVars, reqVars, stopVars,
                   logVars>>
    /\ UNCHANGED wrkVars

\* variant: the buffer of the previous connection is kept
KeepsBuffer(c) ==
    /\ fpc[c] = "connected_ok"
    /\ connected' = [connected EXCEPT ![c] = TRUE]
    /\ connBase' = [connBase EXCEPT ![c] = Len(ingested[c])]
    /\ fpc' = [fpc EXCEPT ![c] = "inner"]
    /\ UNCHANGED <<running, jetson_socket, regVars, locVars, upVars, gwVars,
                   reqVars, stopVars, ingested, wrote, joinedAt, nAdded,
                   nRemoved, failed, lateWrite>>
    /\ UNCHANGED wrkVars

\* self.connected = True; buffer = b""
F_SetConnected(c) ==
    /\ fpc[c] = "connected_ok"
    /\ connected' = [connected EXCEPT ![c] = TRUE]
    /\ buffer' = [buffer EXCEPT ![c] = <<>>]
    /\ connBase' = [connBase EXCEPT ![c] = Len(ingested[c])]
    /\ fpc' = [fpc EXCEPT ![c] = "inner"]
    /\ UNCHANGED <<running, jetson_socket, regVars, frame_data, idx,
                   dead_clients, upVars, gwVars, reqVars, stopVars, ingested,
                   wrote, joinedAt, nAdded, nRemoved, failed, lateWrite>>
    /\ UNCHANGED wrkVars

\* inner "while self.running:"; leaving it runs the finally block
F_Inner(c) ==
    /\ fpc[c] = "inner"
    /\ IF running[c]
       THEN /\ fpc' = [fpc EXCEPT ![c] = "recv"]
            /\ UNCHANGED <<connected, jetson_socket, upVars>>
       ELSE Cleanup(c)
    /\ UNCHANGED <<running, regVars, locVars, gwVars, reqVars, stopVars,
                   logVars>>
    /\ UNCHANGED wrkVars

\* data = recv(4096) returns k bytes; buffer += data
F_RecvData(c, k) ==
    /\ fpc[c] = "recv"
    /\ jetson_socket[c] = "connected"
    /\ k \in 1..Len(wire[c])
    /\ buffer' = [buffer EXCEPT ![c] = @ \o SubSeq(wire[c], 1, k)]
    /\ wire' = [wire EXCEPT ![c] = SubSeq(@, k + 1, Len(@))]
    /\ fpc' = [fpc EXCEPT ![c] = "scan"]
    /\ UNCHANGED <<running, connected, jetson_socket, regVars, frame_data,
                   idx, dead_clients, upEOF, sent, nSent, gwVars, reqVars,
                   stopVars, logVars>>
    /\ UNCHANGED wrkVars

\* recv returns b"": "Connection closed by Jetson", break, finally
F_RecvEOF(c) ==
    /\ fpc[c] = "recv"
    /\ jetson_socket[c] = "connected"
    /\ wire[c] = <<>>
    /\ upEOF[c]
    /\ Cleanup(c)
    /\ UNCHANGED <<running, regVars, locVars, gwVars, reqVars, stopVars,
                   logVars>>
    /\ UNCHANGED wrkVars

\* recv raises (5 s timeout, reset, socket closed by stop()): except, finally
F_RecvError(c) ==
    /\ fpc[c] = "recv"
    /\ Cleanup(c)
    /\ UNCHANGED <<running, regVars, locVars, gwVars, reqVars, stopVars,
                   logVars>>
    /\ UNCHANGED wrkVars

\* while b"--frame\r\n" in buffer: ... if next_frame == -1: break
\* frame_data = buffer[start:next_frame]; buffer = buffer[next_frame:]
F_Scan(c) ==
    /\ fpc[c] = "scan"
    /\ IF HasFrame(buffer[c])
       THEN /\ frame_data' = [frame_data EXCEPT ![c] = FrameData(buffer[c])]
            /\ buffer' = [buffer EXCEPT ![c] = Rest(buffer[c])]
            /\ ingested' = [ingested EXCEPT ![c] = Append(@, FrameData(buffer[c]))]
            /\ fpc' = [fpc EXCEPT ![c] = "lock"]
       ELSE /\ fpc' = [fpc EXCEPT ![c] = "inner"]
            /\ UNCHANGED <<frame_data, buffer, ingested>>
    /\ UNCHANGED <<running, connected, jetson_socket, regVars, idx,
                   dead_clients, upVars, gwVars, reqVars, stopVars, connBase,
                   wrote, joinedAt, nAdded, nRemoved, failed, lateWrite>>
    /\ UNCHANGED wrkVars

\* with self.lock: dead_clients = []
F_Lock(c) ==
    /\ fpc[c] = "lock"
    /\ lock[c] = "free"
    /\ lock' = [lock EXCEPT ![c] = "forward_frames"]
    /\ dead_clients' = [dead_clients EXCEPT ![c] = <<>>]
    /\ idx' = [idx EXCEPT ![c] = 1]
    /\ fpc' = [fpc EXCEPT ![c] = "write"]
    /\ UNCHANGED <<running, connected, jetson_socket, clients, buffer,
                   frame_data, upVars, gwVars, reqVars, stopVars, logVars>>
    /\ UNCHANGED wrkVars

\* a write to a wfile whose request was finished (closed socket) raises;
\* a write to an open one succeeds, or raises when the peer has gone away
CanWrite(r) == ~wclosed[r]

\* variant: a failed write is not caught per client but ends the connection
WriteFailureEscapes(c, ok) ==
    /\ fpc[c] = "write"
    /\ idx[c] <= Len(clients[c])
    /\ LET r == clients[c][idx[c]] IN
       /\ ok => CanWrite(r)
       /\ IF ok
          THEN /\ wrote' = [wrote EXCEPT ![r] = Append(@, frame_data[c])]
               /\ idx' = [idx EXCEPT ![c] = @ + 1]
               /\ UNCHANGED <<connected, jetson_socket, fpc, upVars, lock,
                              failed>>
          ELSE /\ Cleanup(c)
               /\ lock' = [lock EXCEPT ![c] = "free"]
               /\ failed' = [failed EXCEPT ![r] = TRUE]
               /\ UNCHANGED <<wrote, idx>>
       /\ lateWrite' = [lateWrite EXCEPT ![r] = @ \/ nRemoved[r] > 0]
    /\ UNCHANGED <<running, clients, buffer, frame_data, dead_clients, gwVars,
                   reqVars, stopVars, ingested, connBase, joinedAt, nAdded,
                   nRemoved>>
    /\ UNCHANGED wrkVars

\* variant: a failed write is swallowed, the client is not marked dead
WriteFailureIgnored(c, ok) ==
    /\ fpc[c] = "write"
    /\ idx[c] <= Len(clients[c])
    /\ LET r == clients[c][idx[c]] IN
       /\ ok => CanWrite(r)
       /\ IF ok
          THEN /\ wrote' = [wrote EXCEPT ![r] = Append(@, frame_data[c])]
               /\ UNCHANGED failed
          ELSE /\ failed' = [failed EXCEPT ![r] = TRUE]
               /\ UNCHANGED wrote
       /\ lateWrite' = [lateWrite EXCEPT ![r] = @ \/ nRemoved[r] > 0]
    /\ idx' = [idx EXCEPT ![c] = @ + 1]
    /\ UNCHANGED <<running, connected, jetson_socket, fpc, regVars, buffer,
                   frame_data, dead_clients, upVars, gwVars, reqVars, stopVars,
                   ingested, connBase, joinedAt, nAdded, nRemoved>>
    /\ UNCHANGED wrkVars

\* one iteration of "for client in self.clients": write + flush, or the
\* except branch dead_clients.append(client)
F_Write(c, ok) ==
    /\ fpc[c] = "write"
    /\ idx[c] <= Len(clients[c])
    /\ LET r == clients[c][idx[c]] IN
       /\ ok => CanWrite(r)
       /\ IF ok
          THEN /\ wrote' = [wrote EXCEPT ![r] = Append(@, frame_data[c])]
               /\ UNCHANGED <<dead_clients, failed>>
          ELSE /\ dead_clients' = [dead_clients EXCEPT ![c] = Append(@, r)]
               /\ failed' = [failed EXCEPT ![r] = TRUE]
               /\ UNCHANGED wrote
       /\ lateWrite' = [lateWrite EXCEPT ![r] = @ \/ nRemoved[r] > 0]
    /\ idx' = [idx EXCEPT ![c] = @ + 1]
    /\ UNCHANGED <<running, connected, jetson_socket, fpc, regVars, buffer,
                   frame_data, upVars, gwVars, reqVars, stopVars, ingested,
                   connBase, joinedAt, nAdded, nRemoved>>
    /\ UNCHANGED wrkVars

\* list.remove(x): the list without the first occurrence of x
RECURSIVE ListRemove(_, _)
ListRemove(list, x) ==
    IF list = <<>> THEN <<>>
    ELSE IF Head(list) = x THEN Tail(list)
    ELSE <<Head(list)>> \o ListRemove(Tail(list), x)

\* variant: the dead clients stay in the list
RemoveNone(list, dead) == list

\* for client in dead_clients: self.clients.remove(client)
RECURSIVE RemoveAll(_, _)
RemoveAll(list, dead) ==
    IF dead = <<>> THEN list
    ELSE RemoveAll(ListRemove(list, Head(dead)), Tail(dead))

Range(s) == {s[i] : i \in 1..Len(s)}

\* end of the for loop: remove the dead clients, leave the with block
F_Remove(c) ==
    /\ fpc[c] = "write"
    /\ idx[c] > Len(clients[c])
    /\ clients' = [clients EXCEPT ![c] = RemoveAll(@, dead_clients[c])]
    /\ nRemoved' = [r \in Requests |->
                      IF r \in Range(dead_clients[c]) THEN nRemoved[r] + 1
                      ELSE nRemoved[r]]
    /\ lock' = [lock EXCEPT ![c] = "free"]
    /\ fpc' = [fpc EXCEPT ![c] = "scan"]
    /\ idx' = [idx EXCEPT ![c] = 1]
    /\ dead_clients' = [dead_clients EXCEPT ![c] = <<>>]
    /\ UNCHANGED <<running, connected, jetson_socket, buffer, frame_data,
                   upVars, gwVars, reqVars, stopVars, ingested, connBase,
                   wrote, joinedAt, nAdded, failed, lateWrite>>
    /\ UNCHANGED wrkVars

\* time.sleep(5) returns
F_Sleep(c) ==
    /\ fpc[c] = "sleep"
    /\ fpc' = [fpc EXCEPT ![c] = "top"]
    /\ UNCHANGED <<running, connected, jetson_socket, regVars, locVars,
                   upVars, gwVars, reqVars, stopVars, logVars>>
    /\ UNCHANGED wrkVars

\* --------------------------------------------------------- the upstream
\* the worker at the other end writes one more chunk: payload p, declared
\* length n (a StreamServer handler always declares n = len(p))
Up_Send(c, n, p) ==
    /\ jetson_socket[c] = "connected"
    /\ ~upEOF[c]
    /\ nSent < MaxChunks
    /\ wire' = [wire EXCEPT ![c] = @ \o WireChunk(n, p)]
    /\ sent' = [sent EXCEPT ![c] = Append(@, WireChunk(n, p))]
    /\ nSent' = nSent + 1
    /\ UNCHANGED <<running, connected, jetson_socket, fpc, regVars, locVars,
                   upEOF, gwVars, reqVars, stopVars, logVars>>
    /\ UNCHANGED wrkVars

\* bytes a peer may write ahead of its first chunk: forward_frames takes
\* whatever the peer on the port sends
Preambles == {<<"a">>, <<"CRLF", "--frame">>}

\* the peer writes such bytes as the first thing on the connection
Up_Preamble(c, j) ==
    /\ jetson_socket[c] = "connected"
    /\ ~upEOF[c]
    /\ sent[c] = <<>>
    /\ wire' = [wire EXCEPT ![c] = @ \o j]
    /\ sent' = [sent EXCEPT ![c] = Append(@, j)]
    /\ UNCHANGED <<running, connected, jetson_socket, fpc, regVars, locVars,
                   upEOF, nSent, gwVars, reqVars, stopVars, logVars>>
    /\ UNCHANGED wrkVars

\* the worker closes the connection (or dies): EOF after the bytes in flight
Up_Close(c) ==
    /\ jetson_socket[c] = "connected"
    /\ ~upEOF[c]
    /\ upEOF' = [upEOF EXCEPT ![c] = TRUE]
    /\ UNCHANGED <<running, connected, jetson_socket, fpc, regVars, locVars,
                   wire, sent, nSent, gwVars, reqVars, stopVars, logVars>>
    /\ UNCHANGED wrkVars

\* ------------------------------------------------- the HTTP gateway ----
\* request finished: StreamRequestHandler.finish closes wfile, the server
\* closes the request socket and goes back to its accept loop
Finish(r, status) ==
    /\ hpc' = [hpc EXCEPT ![r] = "done"]
    /\ response' = [response EXCEPT ![r] = IF @ = "none" THEN status ELSE @]
    /\ wclosed' = [wclosed EXCEPT ![r] = TRUE]
    /\ serving' = 0

\* requests are numbered in the order the server accepts them
NextRequest(r) == hpc[r] = "new" /\ \A q \in 1..(r - 1) : hpc[q] # "new"

\* forwarders[camera_id] with Python's list indexing: -1 is the last one;
\* NumCams stands for IndexError
PyIndex(camera_id) ==
    IF camera_id >= 0 THEN camera_id
    ELSE IF camera_id >= -NumCams THEN NumCams + camera_id
    ELSE NumCams

\* socketserver.TCPServer.serve_forever takes the next request only after
\* the handler of the previous one has returned
CanAccept(r) == httpd = "serving" /\ serving = 0 /\ NextRequest(r)

\* do_GET dispatches /camera/<camera_id> to serve_camera_stream, which runs
\* up to its wait loop
G_AcceptCamera(r, camera_id) ==
    /\ CanAccept(r)
    /\ IF camera_id >= NumCams
       THEN /\ Finish(r, "404")
            /\ UNCHANGED <<hcam, wait_time>>
       ELSE IF PyIndex(camera_id) = NumCams
       THEN /\ Finish(r, "none")
            /\ UNCHANGED <<hcam, wait_time>>
       ELSE /\ hpc' = [hpc EXCEPT ![r] = "wait"]
            /\ hcam' = [hcam EXCEPT ![r] = PyIndex(camera_id)]
            /\ wait_time' = [wait_time EXCEPT ![r] = 0]
            /\ serving' = r
            /\ UNCHANGED <<response, wclosed>>
    /\ UNCHANGED <<running, connected, jetson_socket, fpc, regVars, locVars,
                   upVars, srv_running, httpd, stopVars, logVars>>
    /\ UNCHANGED wrkVars

\* variant: the handler gives up after one poll
GivesUpAfterOnePoll(r) ==
    /\ hpc[r] = "wait"
    /\ IF ~connected[hcam[r]] /\ wait_time[r] < 1
       THEN /\ wait_time' = [wait_time EXCEPT ![r] = @ + 1]
            /\ UNCHANGED hpc
       ELSE /\ hpc' = [hpc EXCEPT ![r] = "check"]
            /\ wait_time' = [wait_time EXCEPT ![r] = 0]
    /\ UNCHANGED <<running, connected, jetson_socket, fpc, regVars, locVars,
                   upVars, gwVars, hcam, response, wclosed, stopVars, logVars>>
    /\ UNCHANGED wrkVars

\* while not forwarder.connected and wait_time < 10: sleep(0.5)
H_Poll(r) ==
    /\ hpc[r] = "wait"
    /\ IF ~connected[hcam[r]] /\ wait_time[r] < WaitPolls
       THEN /\ wait_time' = [wait_time EXCEPT ![r] = @ + 1]
            /\ UNCHANGED hpc
       ELSE /\ hpc' = [hpc EXCEPT ![r] = "check"]
            /\ wait_time' = [wait_time EXCEPT ![r] = 0]
    /\ UNCHANGED <<running, connected, jetson_socket, fpc, regVars, locVars,
                   upVars, gwVars, hcam, response, wclosed, stopVars, logVars>>
    /\ UNCHANGED wrkVars

\* if not forwarder.connected: send_error(503); return
\* else send_response(200), headers; when that write raises (peer gone) the
\* handler's except swallows it and add_client is not reached
H_Check(r, ok) ==
    /\ hpc[r] = "check"
    /\ IF ~connected[hcam[r]]
       THEN /\ ok
            /\ Finish(r, "503")
       ELSE IF ok
       THEN /\ hpc' = [hpc EXCEPT ![r] = "add_client"]
            /\ response' = [response EXCEPT ![r] = "200"]
            /\ UNCHANGED <<wclosed, serving>>
       ELSE Finish(r, "200")
    /\ UNCHANGED <<running, connected, jetson_socket, fpc, regVars, locVars,
                   upVars, srv_running, httpd, hcam, wait_time, stopVars,
                   logVars>>
    /\ UNCHANGED wrkVars

\* variant: add_client does not wait for the lock
AddWithoutLock(r) ==
    /\ hpc[r] = "add_client"
    /\ lock' = [lock EXCEPT ![hcam[r]] = "add_client"]
    /\ hpc' = [hpc EXCEPT ![r] = "append"]
    /\ UNCHANGED <<running, connected, jetson_socket, fpc, clients, locVars,
                   upVars, gwVars, hcam, wait_time, response, wclosed,
                   stopVars, logVars>>
    /\ UNCHANGED wrkVars

\* add_client: "with self.lock:" entered
H_AddLock(r) ==
    /\ hpc[r] = "add_client"
    /\ lock[hcam[r]] = "free"
    /\ lock' = [lock EXCEPT ![hcam[r]] = "add_client"]
    /\ hpc' = [hpc EXCEPT ![r] = "append"]
    /\ UNCHANGED <<running, connected, jetson_socket, fpc, clients, locVars,
                   upVars, gwVars, hcam, wait_time, response, wclosed,
                   stopVars, logVars>>
    /\ UNCHANGED wrkVars

\* frames of camera c whose fan-out has begun: all the delimited ones, but
\* for the one still waiting for the lock
FannedOut(c) == Len(ingested[c]) - (IF fpc[c] = "lock" THEN 1 ELSE 0)

\* self.clients.append(client), lock released
H_AddAppend(r) ==
    /\ hpc[r] = "append"
    /\ clients' = [clients EXCEPT ![hcam[r]] = Append(@, r)]
    /\ lock' = [lock EXCEPT ![hcam[r]] = "free"]
    /\ hpc' = [hpc EXCEPT ![r] = "keepalive"]
    /\ nAdded' = [nAdded EXCEPT ![r] = @ + 1]
    /\ joinedAt' = [joinedAt EXCEPT ![r] = FannedOut(hcam[r])]
    /\ UNCHANGED <<running, connected, jetson_socket, fpc, locVars, upVars,
                   gwVars, hcam, wait_time, response, wclosed, stopVars,
                   ingested, connBase, wrote, nRemoved, failed, lateWrite>>
    /\ UNCHANGED wrkVars

\* while self.pi_server.running and forwarder.connected: sleep(0.1)
\* the handler returns when the condition is seen false
H_KeepAlive(r) ==
    /\ hpc[r] = "keepalive"
    /\ ~(srv_running /\ connected[hcam[r]])
    /\ Finish(r, "200")
    /\ UNCHANGED <<running, connected, jetson_socket, fpc, regVars, locVars,
                   upVars, srv_running, httpd, hcam, wait_time, stopVars,
                   logVars>>
    /\ UNCHANGED wrkVars

\* GET /status: serve_status reads connected and len(clients) of every
\* forwarder (without the lock) and answers
G_AcceptStatus(r) ==
    /\ CanAccept(r)
    /\ Finish(r, "200 status")
    /\ UNCHANGED <<running, connected, jetson_socket, fpc, regVars, locVars,
                   upVars, srv_running, httpd, hcam, wait_time, stopVars,
                   logVars>>
    /\ UNCHANGED wrkVars

\* ------------------------------------------------------- shutdown ------
\* KeyboardInterrupt in the main thread, which runs serve_forever and the
\* handler in progress: the handler is abandoned (a lock held by a with
\* block is released), its request closed, serve_forever is left
Interrupt ==
    /\ pstop = "run"
    /\ pstop' = "stop"
    /\ httpd' = "down"
    /\ serving' = 0
    /\ hpc' = [r \in Requests |-> IF r = serving THEN "done" ELSE hpc[r]]
    /\ wclosed' = [r \in Requests |-> wclosed[r] \/ r = serving]
    /\ wait_time' = [r \in Requests |-> 0]
    /\ lock' = [c \in Cams |-> IF lock[c] = "add_client" THEN "free" ELSE lock[c]]
    /\ UNCHANGED <<running, connected, jetson_socket, fpc, clients, locVars,
                   upVars, srv_running, hcam, response, stop_i, logVars>>
    /\ UNCHANGED wrkVars

\* PiServer.stop: self.running = False
P_Stop ==
    /\ pstop = "stop"
    /\ srv_running' = FALSE
    /\ pstop' = "flag"
    /\ stop_i' = 0
    /\ UNCHANGED <<running, connected, jetson_socket, fpc, regVars, locVars,
                   upVars, httpd, serving, reqVars, logVars>>
    /\ UNCHANGED wrkVars

\* MJPEGForwarder.stop of forwarder stop_i: self.running = False
M_StopFlag ==
    /\ pstop = "flag"
    /\ IF stop_i < NumCams
       THEN /\ running' = [running EXCEPT ![stop_i] = FALSE]
            /\ pstop' = "close"
       ELSE /\ pstop' = "stopped"
            /\ UNCHANGED running
    /\ UNCHANGED <<connected, jetson_socket, fpc, regVars, locVars, upVars,
                   gwVars, reqVars, stop_i, logVars>>
    /\ UNCHANGED wrkVars

\* MJPEGForwarder.stop: if self.jetson_socket: self.jetson_socket.close()
M_StopClose ==
    /\ pstop = "close"
    /\ jetson_socket' = [jetson_socket EXCEPT ![stop_i] =
                            IF @ = "None" THEN @ ELSE "closed"]
    /\ pstop' = "flag"
    /\ stop_i' = stop_i + 1
    /\ UNCHANGED <<running, connected, fpc, regVars, locVars, upVars, gwVars,
                   reqVars, logVars>>
    /\ UNCHANGED wrkVars

\* ------------------------------------------------------ the workers ---
\* text.split(', '): the pieces of a text between the occurrences of the
\* separator, scanned from the left; a text without separator is one piece
Separator == <<",", " ">>

SepAt(text, i) ==
    /\ i + Len(Separator) - 1 <= Len(text)
    /\ SubSeq(text, i, i + Len(Separator) - 1) = Separator

RECURSIVE Split(_)
Split(text) ==
    LET S == {i \in 1..Len(text) : SepAt(text, i)}
    IN  IF S = {} THEN <<text>>
        ELSE LET i == CHOOSE j \in S : \A h \in S : j <= h
             IN  <<SubSeq(text, 1, i - 1)>>
                   \o Split(SubSeq(text, i + Len(Separator), Len(text)))

\* DEFAULT_PROMPT = "a person, a car, ...": a text of several labels
DEFAULT_PROMPT == <<"p", ",", " ", "c">>

\* no set_prompt answered yet; no response written yet
None == "None"

\* command connections, in the order accept() returns them
Conns == 1..MaxCmds

\* the texts a set_prompt envelope carries: two labels, one label, the empty
\* string (also what cmd.get('text', '') gives for a missing field), a comma
\* without the blank; and a text that is a number, not a string
Texts == {<<"a", ",", " ", "b">>, <<"c">>, <<>>, <<"a", ",", "b">>}
NonString == <<"5">>

\* what a client sends on a command connection: a JSON object with cmd
\* set_prompt, with another cmd or with none, JSON that is no object, text
\* that is no JSON, bytes that are no UTF-8, or nothing before it closes
Envelopes ==
    {[kind |-> "set_prompt", text |-> t] : t \in Texts \cup {NonString}}
      \cup {[kind |-> k, text |-> <<>>] :
               k \in {"bogus", "no_cmd", "not_object", "not_json", "not_utf8",
                      "empty"}}

NoData == [kind |-> None, text |-> <<>>]

\* json.loads(data) raises for the empty string and for text that is no JSON;
\* cmd.get raises AttributeError for a JSON value that is no object
JSONDecodeError == "Expecting value: line 1 column 1 (char 0)"
AttributeError == "object has no attribute"
ErrorTexts == {JSONDecodeError, AttributeError}

\* CameraWorker.__init__ / DetectionWorker.__init__ and run(): camera
\* initialised, servers listening, every client handler at position pos
WorkerState(pos) ==
    /\ cw_running = TRUE
    /\ cw_camera = "open"
    /\ camera_lock = 0
    /\ cpc = [k \in Clients |-> pos]
    /\ cframe = [k \in Clients |-> 0]
    /\ cjpeg = [k \in Clients |-> <<>>]
    /\ dw_running = TRUE
    /\ dpc = [k \in Clients |-> pos]
    /\ dframe = [k \in Clients |-> 0]
    /\ djpeg = [k \in Clients |-> <<>>]
    /\ bad_reads = [k \in Clients |-> 0]
    /\ ccount = 0
    /\ dcount = 0
    /\ sent_unit = [w \in Workers |-> [k \in Clients |-> <<>>]]
    /\ sent_jpeg = [w \in Workers |-> [k \in Clients |-> <<>>]]
    /\ got = [w \in Workers |-> [k \in Clients |-> <<>>]]
    /\ dlabels = [k \in Clients |-> <<>>]
    /\ prompt_text = DEFAULT_PROMPT
    /\ prompts = Split(DEFAULT_PROMPT)
    /\ kpc = "accept"
    /\ conn = 0
    /\ data = NoData
    /\ reply = None
    /\ nresp = [n \in Conns |-> 0]
    /\ resp = [n \in Conns |-> None]
    /\ cstat = [n \in Conns |-> "none"]
    /\ acked = None

\* run() up to the accept loop: no client yet
WorkerInit == WorkerState("idle")

\* cv2.imencode + tobytes of the f-th frame of a camera: a byte string whose
\* length grows with f (one, then two decimal digits) and which may hold the
\* bytes of the boundary token.  No JPEG is empty; <<>> stands for None.
EncodedLen(f) == 5 * f - 4

encode_frame(f) ==
    [i \in 1..EncodedLen(f) |->
        IF i % 3 = 2 THEN "--frame" ELSE IF i % 3 = 0 THEN "CRLF" ELSE "a"]

camVars == <<cw_running, cw_camera, camera_lock, cpc, cframe, cjpeg, ccount>>
detVars == <<dw_running, dpc, dframe, djpeg, bad_reads, dcount, dlabels>>

\* CameraWorker.run: accept() returns, a handler thread is started
CW_Accept(k) ==
    /\ proc = "camera"
    /\ cw_running
    /\ cpc[k] = "idle"
    /\ cpc' = [cpc EXCEPT ![k] = "top"]
    /\ UNCHANGED <<cw_running, cw_camera, camera_lock, cframe, cjpeg, ccount,
                   detVars, sent_unit, sent_jpeg, got, proc, cmdVars,
                   hubVars, extVars>>

\* stream_to_client: "while self.running:", else finally: close
CW_Top(k) ==
    /\ cpc[k] = "top"
    /\ cpc' = [cpc EXCEPT ![k] = IF cw_running THEN "lock" ELSE "done"]
    /\ UNCHANGED <<cw_running, cw_camera, camera_lock, cframe, cjpeg, ccount,
                   detVars, sent_unit, sent_jpeg, got, proc, cmdVars,
                   hubVars, extVars>>

\* "with self.camera_lock:" entered
CW_Acquire(k) ==
    /\ cpc[k] = "lock"
    /\ camera_lock = 0
    /\ camera_lock' = k
    /\ cpc' = [cpc EXCEPT ![k] = "read"]
    /\ UNCHANGED <<cw_running, cw_camera, cframe, cjpeg, ccount, detVars,
                   sent_unit, sent_jpeg, got, proc, cmdVars,
                   hubVars, extVars>>

\* variant: the with block extends over the whole iteration, a handler that
\* got a frame keeps the lock
ReadKeepsLock(k, ret) ==
    /\ cpc[k] = "read"
    /\ IF cw_camera # "open"
       THEN /\ ret
            /\ cpc' = [cpc EXCEPT ![k] = "done"]
            /\ camera_lock' = 0
            /\ UNCHANGED <<cframe, ccount>>
       ELSE IF ret
       THEN /\ ccount < MaxFrames
            /\ ccount' = ccount + 1
            /\ cframe' = [cframe EXCEPT ![k] = ccount + 1]
            /\ cpc' = [cpc EXCEPT ![k] = "encode"]
            /\ UNCHANGED camera_lock
       ELSE /\ cpc' = [cpc EXCEPT ![k] = "top"]
            /\ camera_lock' = 0
            /\ UNCHANGED <<cframe, ccount>>
    /\ UNCHANGED <<cw_running, cw_camera, cjpeg, detVars, sent_unit,
                   sent_jpeg, got, proc, cmdVars, hubVars, extVars>>

\* variant: a handler that has read a frame before is handed that frame
\* again instead of the one just captured
StaleFrameRead(k, ret) ==
    /\ cpc[k] = "read"
    /\ camera_lock' = 0
    /\ IF cw_camera # "open"
       THEN /\ ret
            /\ cpc' = [cpc EXCEPT ![k] = "done"]
            /\ UNCHANGED <<cframe, ccount>>
       ELSE IF ret
       THEN /\ ccount < MaxFrames
            /\ ccount' = ccount + 1
            /\ cframe' = [cframe EXCEPT ![k] = IF @ > 0 THEN @ ELSE ccount + 1]
            /\ cpc' = [cpc EXCEPT ![k] = "encode"]
       ELSE /\ cpc' = [cpc EXCEPT ![k] = "top"]
            /\ UNCHANGED <<cframe, ccount>>
    /\ UNCHANGED <<cw_running, cw_camera, cjpeg, detVars, sent_unit,
                   sent_jpeg, got, proc, cmdVars,
                   hubVars, extVars>>

\* inside the lock: camera not available -> break; else ret, frame =
\* self.camera.read(); the lock is released; not ret -> sleep, continue
CW_Read(k, ret) ==
    /\ cpc[k] = "read"
    /\ camera_lock' = 0
    /\ IF cw_camera # "open"
       THEN /\ ret
            /\ cpc' = [cpc EXCEPT ![k] = "done"]
            /\ UNCHANGED <<cframe, ccount>>
       ELSE IF ret
       THEN /\ ccount < MaxFrames
            /\ ccount' = ccount + 1
            /\ cframe' = [cframe EXCEPT ![k] = ccount + 1]
            /\ cpc' = [cpc EXCEPT ![k] = "encode"]
       ELSE /\ cpc' = [cpc EXCEPT ![k] = "top"]
            /\ UNCHANGED <<cframe, ccount>>
    /\ UNCHANGED <<cw_running, cw_camera, cjpeg, detVars, sent_unit,
                   sent_jpeg, got, proc, cmdVars,
                   hubVars, extVars>>

\* jpeg_data = self.encode_frame(frame); None -> continue
CW_Encode(k, ok) ==
    /\ cpc[k] = "encode"
    /\ cjpeg' = [cjpeg EXCEPT ![k] = IF ok THEN encode_frame(cframe[k]) ELSE <<>>]
    /\ cpc' = [cpc EXCEPT ![k] = IF ok THEN "send" ELSE "top"]
    /\ UNCHANGED <<cw_running, cw_camera, camera_lock, cframe, ccount,
                   detVars, sent_unit, sent_jpeg, got, proc, cmdVars,
                   hubVars, extVars>>

\* variant: a failed write is taken as fatal for the worker
SendFailureStopsWorker(k, ok) ==
    /\ cpc[k] = "send"
    /\ IF ok
       THEN /\ sent_unit' = [sent_unit EXCEPT !["camera"][k] = Unit(cjpeg[k])]
            /\ sent_jpeg' = [sent_jpeg EXCEPT !["camera"][k] = cjpeg[k]]
            /\ got' = [got EXCEPT !["camera"][k] = Append(@, cframe[k])]
            /\ cpc' = [cpc EXCEPT ![k] = "top"]
            /\ UNCHANGED cw_running
       ELSE /\ cpc' = [cpc EXCEPT ![k] = "done"]
            /\ cw_running' = FALSE
            /\ UNCHANGED <<sent_unit, sent_jpeg, got>>
    /\ UNCHANGED <<cw_camera, camera_lock, cframe, cjpeg, ccount,
                   detVars, proc, cmdVars, hubVars, extVars>>

\* client_socket.sendall(header + jpeg_data + b"\r\n"); an exception -> break
CW_Send(k, ok) ==
    /\ cpc[k] = "send"
    /\ IF ok
       THEN /\ sent_unit' = [sent_unit EXCEPT !["camera"][k] = Unit(cjpeg[k])]
            /\ sent_jpeg' = [sent_jpeg EXCEPT !["camera"][k] = cjpeg[k]]
            /\ got' = [got EXCEPT !["camera"][k] = Append(@, cframe[k])]
            /\ cpc' = [cpc EXCEPT ![k] = "top"]
       ELSE /\ cpc' = [cpc EXCEPT ![k] = "done"]
            /\ UNCHANGED <<sent_unit, sent_jpeg, got>>
    /\ UNCHANGED <<cw_running, cw_camera, camera_lock, cframe, cjpeg, ccount,
                   detVars, proc, cmdVars,
                   hubVars, extVars>>

\* DetectionWorker.run: accept() returns, a handler thread is started
DW_Accept(k) ==
    /\ proc = "detection"
    /\ dw_running
    /\ dpc[k] = "idle"
    /\ dpc' = [dpc EXCEPT ![k] = "top"]
    /\ bad_reads' = [bad_reads EXCEPT ![k] = 0]
    /\ UNCHANGED <<dw_running, dframe, djpeg, dcount, dlabels, camVars,
                   sent_unit, sent_jpeg, got, proc, cmdVars, hubVars, extVars>>

\* stream_to_client: "while self.running:" and the call of read_frame, which
\* takes no lock (position "read": camera.read() or read_mjpeg_frame under
\* way); else finally: close
DW_Top(k) ==
    /\ dpc[k] = "top"
    /\ dpc' = [dpc EXCEPT ![k] = IF dw_running THEN "read" ELSE "done"]
    /\ UNCHANGED <<dw_running, dframe, djpeg, bad_reads, dcount, dlabels,
                   camVars, sent_unit, sent_jpeg, got, proc, cmdVars,
                   hubVars, extVars>>

\* read_frame returns; None -> bad_reads += 1 and, at 10, init_camera is
\* called (position "reinit"); a frame -> bad_reads = 0
DW_Read(k, ok) ==
    /\ dpc[k] = "read"
    /\ IF ok
       THEN /\ dcount < MaxFrames
            /\ dcount' = dcount + 1
            /\ dframe' = [dframe EXCEPT ![k] = dcount + 1]
            /\ bad_reads' = [bad_reads EXCEPT ![k] = 0]
            /\ dpc' = [dpc EXCEPT ![k] = "detect"]
       ELSE /\ bad_reads' = [bad_reads EXCEPT ![k] = @ + 1]
            /\ dpc' = [dpc EXCEPT ![k] =
                          IF bad_reads[k] + 1 >= BadReadLimit THEN "reinit"
                          ELSE "top"]
            /\ UNCHANGED <<dframe, dcount>>
    /\ UNCHANGED <<dw_running, djpeg, dlabels, camVars, sent_unit, sent_jpeg,
                   got, proc, cmdVars, hubVars, extVars>>

\* init_camera returns: if not self.init_camera(): self.running = False;
\* break; else bad_reads = 0; sleep; continue
DW_Reinit(k, ok) ==
    /\ dpc[k] = "reinit"
    /\ IF ok
       THEN /\ bad_reads' = [bad_reads EXCEPT ![k] = 0]
            /\ dpc' = [dpc EXCEPT ![k] = "top"]
            /\ UNCHANGED dw_running
       ELSE /\ dw_running' = FALSE
            /\ dpc' = [dpc EXCEPT ![k] = "done"]
            /\ UNCHANGED bad_reads
    /\ UNCHANGED <<dframe, djpeg, dcount, dlabels, camVars, sent_unit,
                   sent_jpeg, got, proc, cmdVars, hubVars, extVars>>

\* variant: the predictor is given the text itself as its one label
WholeTextLabel(k) ==
    /\ dpc[k] = "detect"
    /\ dlabels' = [dlabels EXCEPT ![k] = <<prompt_text>>]
    /\ dpc' = [dpc EXCEPT ![k] = "label"]
    /\ UNCHANGED <<dw_running, dframe, djpeg, bad_reads, dcount, camVars,
                   sent_unit, sent_jpeg, got, proc, cmdVars, hubVars, extVars>>

\* annotated_frame, _ = self.detect_objects(frame) with the predictor loaded:
\* kwargs['text'] = self.prompts, one read of the attribute, and
\* output = self.predictor.predict(**kwargs)
DW_Detect(k) ==
    /\ dpc[k] = "detect"
    /\ dlabels' = [dlabels EXCEPT ![k] = prompts]
    /\ dpc' = [dpc EXCEPT ![k] = "label"]
    /\ UNCHANGED <<dw_running, dframe, djpeg, bad_reads, dcount, camVars,
                   sent_unit, sent_jpeg, got, proc, cmdVars, hubVars, extVars>>

\* the positions output.labels may hold: the predictor answers with
\* positions of the list it was given; 0 stands for no box
LabelIdxs == 0..2

\* for i, box in enumerate(output.boxes): label_idx = int(output.labels[i]);
\* label_str = str(self.prompts[label_idx]) if label_idx < len(self.prompts)
\* else "unknown": self.prompts is read again for the box; without a box the
\* loop body does not run
DW_Label(k, label_idx) ==
    /\ dpc[k] = "label"
    /\ label_idx <= Len(dlabels[k])
    /\ IF label_idx = 0
       THEN /\ naming' = [naming EXCEPT ![k] = <<>>]
            /\ label_str' = [label_str EXCEPT ![k] = NoLabel]
       ELSE /\ naming' = [naming EXCEPT ![k] = prompts]
            /\ label_str' = [label_str EXCEPT ![k] =
                                IF label_idx <= Len(prompts)
                                THEN prompts[label_idx] ELSE <<"unknown">>]
    /\ dpc' = [dpc EXCEPT ![k] = "encode"]
    /\ UNCHANGED <<dw_running, dframe, djpeg, bad_reads, dcount, dlabels,
                   camVars, sent_unit, sent_jpeg, got, proc, cmdVars, hubVars,
                   supVars, qVars, mVars, runVars, mjVars, peerVars>>

\* jpeg_data = self.encode_frame(annotated_frame); None -> continue
DW_Encode(k, ok) ==
    /\ dpc[k] = "encode"
    /\ djpeg' = [djpeg EXCEPT ![k] = IF ok THEN encode_frame(dframe[k]) ELSE <<>>]
    /\ dpc' = [dpc EXCEPT ![k] = IF ok THEN "send" ELSE "top"]
    /\ UNCHANGED <<dw_running, dframe, bad_reads, dcount, dlabels, camVars,
                   sent_unit, sent_jpeg, got, proc, cmdVars, hubVars, extVars>>

\* client_socket.sendall(header + jpeg_data + b"\r\n"); an exception -> break
DW_Send(k, ok) ==
    /\ dpc[k] = "send"
    /\ IF ok
       THEN /\ sent_unit' = [sent_unit EXCEPT !["detection"][k] = Unit(djpeg[k])]
            /\ sent_jpeg' = [sent_jpeg EXCEPT !["detection"][k] = djpeg[k]]
            /\ got' = [got EXCEPT !["detection"][k] = Append(@, dframe[k])]
            /\ dpc' = [dpc EXCEPT ![k] = "top"]
       ELSE /\ dpc' = [dpc EXCEPT ![k] = "done"]
            /\ UNCHANGED <<sent_unit, sent_jpeg, got>>
    /\ UNCHANGED <<dw_running, dframe, djpeg, bad_reads, dcount, dlabels,
                   camVars, proc, cmdVars, hubVars, extVars>>

\* ---------------------------------------- the command channel ---------
\* DetectionWorker.start_command_server.loop: one thread, one connection at
\* a time
strVars == <<camVars, detVars, sent_unit, sent_jpeg, got, proc, hubVars, extVars>>

\* conn, _ = self.cmd_socket.accept() returns inside "while self.running:"
K_Accept ==
    /\ proc = "detection"
    /\ kpc = "accept"
    /\ dw_running
    /\ conn < MaxCmds
    /\ conn' = conn + 1
    /\ cstat' = [cstat EXCEPT ![conn + 1] = "open"]
    /\ kpc' = "recv"
    /\ UNCHANGED <<prompt_text, prompts, data, reply, nresp, resp, acked,
                   strVars>>

\* variant: a missing cmd field raises (cmd['cmd'] for cmd.get('cmd'))
MissingCmdRaises(e) ==
    IF e.kind \in {"not_json", "empty"} THEN JSONDecodeError
    ELSE IF e.kind \in {"not_object", "no_cmd"} THEN AttributeError
    ELSE "UNKNOWN"

\* the response to data that is no set_prompt object: json.loads raises, or
\* cmd.get raises, and the except branch sends str(e); else b'UNKNOWN'
ReplyTo(e) ==
    IF e.kind \in {"not_json", "empty"} THEN JSONDecodeError
    ELSE IF e.kind = "not_object" THEN AttributeError
    ELSE "UNKNOWN"

\* variant: json.loads is outside the inner try, its failure reaches the
\* outer except
ParseFailureEscapes(e) ==
    /\ kpc = "recv"
    /\ data' = e
    /\ IF e.kind \in {"not_utf8", "not_json", "not_object", "empty"}
       THEN /\ kpc' = "sleep"
            /\ UNCHANGED <<reply, acked>>
       ELSE IF e.kind = "set_prompt"
       THEN /\ kpc' = "settext"
            /\ acked' = None
            /\ UNCHANGED reply
       ELSE /\ kpc' = "respond"
            /\ reply' = ReplyTo(e)
            /\ UNCHANGED acked
    /\ UNCHANGED <<prompt_text, prompts, conn, nresp, resp, cstat, strVars>>

\* data = conn.recv(4096).decode() returns what the client sent (it blocks
\* while the client sends nothing); decode() is outside the inner try, so
\* bytes that are no UTF-8 reach the outer except; then cmd = json.loads(data)
\* and the test of cmd.get('cmd')
K_Recv(e) ==
    /\ kpc = "recv"
    /\ data' = e
    /\ IF e.kind = "not_utf8"
       THEN /\ kpc' = "sleep"
            /\ UNCHANGED <<reply, acked>>
       ELSE IF e.kind = "set_prompt"
       THEN /\ kpc' = "settext"
            /\ acked' = None
            /\ UNCHANGED reply
       ELSE /\ kpc' = "respond"
            /\ reply' = ReplyTo(e)
            /\ UNCHANGED acked
    /\ UNCHANGED <<prompt_text, prompts, conn, nresp, resp, cstat, strVars>>

\* text = cmd.get('text', ''); self.prompt_text = text; text.split raises for
\* a text that is no string and the except branch sends str(e)
K_SetText ==
    /\ kpc = "settext"
    /\ prompt_text' = data.text
    /\ IF data.text = NonString
       THEN /\ reply' = AttributeError
            /\ kpc' = "respond"
       ELSE /\ kpc' = "setprompts"
            /\ UNCHANGED reply
    /\ UNCHANGED <<prompts, conn, data, nresp, resp, cstat, acked, strVars>>

\* self.prompts = [str(s) for s in text.split(', ')]; then b'OK' is to be sent
K_SetPrompts ==
    /\ kpc = "setprompts"
    /\ prompts' = Split(data.text)
    /\ reply' = "OK"
    /\ kpc' = "respond"
    /\ UNCHANGED <<prompt_text, conn, data, nresp, resp, cstat, acked,
                   strVars>>

\* conn.sendall(...) of the response; a failure (the peer is gone) ends in
\* the outer except, in the try branch after the except branch's own sendall
\* failed as well
K_Respond(ok) ==
    /\ kpc = "respond"
    /\ IF ok
       THEN /\ nresp' = [nresp EXCEPT ![conn] = @ + 1]
            /\ resp' = [resp EXCEPT ![conn] = reply]
            /\ acked' = IF reply = "OK" THEN data.text ELSE acked
            /\ kpc' = "close"
            /\ UNCHANGED cstat
       ELSE /\ cstat' = [cstat EXCEPT ![conn] = "lost"]
            /\ kpc' = "sleep"
            /\ UNCHANGED <<nresp, resp, acked>>
    /\ UNCHANGED <<prompt_text, prompts, conn, data, reply, strVars>>

\* conn.close(), back to the head of the loop
K_Close ==
    /\ kpc = "close"
    /\ cstat' = [cstat EXCEPT ![conn] = "closed"]
    /\ kpc' = "accept"
    /\ UNCHANGED <<prompt_text, prompts, conn, data, reply, nresp, resp,
                   acked, strVars>>

\* outer "except Exception: time.sleep(0.5)", back to the head of the loop;
\* conn.close() was not reached
K_Sleep ==
    /\ kpc = "sleep"
    /\ kpc' = "accept"
    /\ UNCHANGED <<prompt_text, prompts, conn, data, reply, nresp, resp,
                   cstat, acked, strVars>>

\* "while self.running:" found false at the head of the loop, which
\* accept's timeout of 1 s reaches again: the thread ends
K_Exit ==
    /\ proc = "detection"
    /\ kpc = "accept"
    /\ ~dw_running
    /\ kpc' = "exited"
    /\ UNCHANGED <<prompt_text, prompts, conn, data, reply, nresp, resp,
                   cstat, acked, strVars>>

\* DetectionWorker.stop, called by __main__'s finally: self.running = False
\* (the sockets it closes are the listening ones, not a connection in hand)
DW_Stop ==
    /\ proc = "detection"
    /\ dw_running
    /\ dw_running' = FALSE
    /\ UNCHANGED <<dpc, dframe, djpeg, bad_reads, dcount, dlabels, camVars,
                   sent_unit, sent_jpeg, got, proc, cmdVars, hubVars, extVars>>

\* ------------------------------------------ read_mjpeg_frame -----------
\* b"\r\n\r\n" in buf: the position of the first blank line, 0 if none
BlankLine(buf) ==
    LET S == {i \in 1..(Len(buf) - 1) : buf[i] = "CRLF" /\ buf[i + 1] = "CRLF"}
    IN  IF S = {} THEN 0 ELSE CHOOSE i \in S : \A j \in S : i <= j

\* the None of "length = None"
NoLength == -1

\* the header lines are searched for one that starts with content-length;
\* length = int(parts[1].strip()) of the first such line
ParseLength(header_bytes) ==
    LET S == {i \in 1..Len(header_bytes) :
                 header_bytes[i] = "Content-Length: "
                   /\ DigitRun(header_bytes, i + 1) >= 1}
    IN  IF S = {} THEN NoLength
        ELSE LET i == CHOOSE i \in S : \A j \in S : i <= j
             IN  Decimal(SubSeq(header_bytes, i + 1,
                                i + DigitRun(header_bytes, i + 1)))

\* the camera worker's handler writes the unit of its next frame on the feed
\* (CameraWorker.stream_to_client: sendall(header + jpeg_data + b"\r\n"))
RM_Feed ==
    /\ Len(framed) < MaxFrames
    /\ feed' = feed \o Unit(encode_frame(Len(framed) + 1))
    /\ framed' = Append(framed, encode_frame(Len(framed) + 1))
    /\ UNCHANGED <<mjpeg_buffer, rest, length, mjpc, extracted, ncalls,
                   mjOthers>>

\* read_frame calls read_mjpeg_frame, the socket being there
RM_Call ==
    /\ mjpc = "idle"
    /\ mjpc' = "header"
    /\ UNCHANGED <<mjpeg_buffer, rest, length, feed, framed, extracted,
                   ncalls, mjOthers>>

\* while b"\r\n\r\n" not in self.mjpeg_buffer: chunk = recv(4096), which
\* returns k bytes; self.mjpeg_buffer += chunk
RM_Header(k) ==
    /\ mjpc = "header"
    /\ BlankLine(mjpeg_buffer) = 0
    /\ k \in 1..Len(feed)
    /\ mjpeg_buffer' = mjpeg_buffer \o SubSeq(feed, 1, k)
    /\ feed' = SubSeq(feed, k + 1, Len(feed))
    /\ UNCHANGED <<rest, length, mjpc, framed, extracted, ncalls, mjOthers>>

\* header_bytes, rest = self.mjpeg_buffer.split(b"\r\n\r\n", 1) and the
\* search for Content-Length; none: self.mjpeg_buffer = rest; return None
RM_Split ==
    /\ mjpc = "header"
    /\ BlankLine(mjpeg_buffer) # 0
    /\ LET b == BlankLine(mjpeg_buffer)
           header_bytes == SubSeq(mjpeg_buffer, 1, b - 1)
           r == SubSeq(mjpeg_buffer, b + 2, Len(mjpeg_buffer))
       IN  IF ParseLength(header_bytes) = NoLength
           THEN /\ mjpeg_buffer' = r
                /\ mjpc' = "idle"
                /\ ncalls' = ncalls + 1
                /\ UNCHANGED <<rest, length>>
           ELSE /\ rest' = r
                /\ length' = ParseLength(header_bytes)
                /\ mjpc' = "body"
                /\ UNCHANGED <<mjpeg_buffer, ncalls>>
    /\ UNCHANGED <<feed, framed, extracted, mjOthers>>

\* while len(rest) < length: chunk = recv(4096); rest += chunk
RM_Body(k) ==
    /\ mjpc = "body"
    /\ Len(rest) < length
    /\ k \in 1..Len(feed)
    /\ rest' = rest \o SubSeq(feed, 1, k)
    /\ feed' = SubSeq(feed, k + 1, Len(feed))
    /\ UNCHANGED <<mjpeg_buffer, length, mjpc, framed, extracted, ncalls,
                   mjOthers>>

\* variant: the b"\r\n" after the payload is left in the buffer
KeepsTrailer ==
    /\ mjpc = "body"
    /\ Len(rest) >= length
    /\ extracted' = Append(extracted, SubSeq(rest, 1, length))
    /\ mjpeg_buffer' = SubSeq(rest, length + 1, Len(rest))
    /\ rest' = <<>>
    /\ mjpc' = "idle"
    /\ ncalls' = ncalls + 1
    /\ UNCHANGED <<length, feed, framed, mjOthers>>

\* jpeg_bytes = rest[:length]; self.mjpeg_buffer = rest[length:], less a
\* leading b"\r\n" if it starts with one; the frame is decoded and returned
RM_Cut ==
    /\ mjpc = "body"
    /\ Len(rest) >= length
    /\ extracted' = Append(extracted, SubSeq(rest, 1, length))
    /\ LET after == SubSeq(rest, length + 1, Len(rest))
       IN  mjpeg_buffer' = IF after # <<>> /\ after[1] = "CRLF"
                           THEN Tail(after) ELSE after
    /\ rest' = <<>>
    /\ mjpc' = "idle"
    /\ ncalls' = ncalls + 1
    /\ UNCHANGED <<length, feed, framed, mjOthers>>

\* ------------------------------------------------- specifications ------
vars == <<hubVars, wrkVars>>

Init == HubInit /\ WorkerInit /\ proc = "camera"

\* either worker process started
WorkerStart == HubInit /\ WorkerInit /\ proc \in Workers

\* the n-th frame the worker of the hub specification streams: successive
\* frames differ
HubPayload(n) == [i \in 1..(n + 1) |-> IF i = 1 THEN "a" ELSE "CRLF"]

\* the forwarder thread of camera c, but for recv returning data
ForwarderCtl(c) ==
    \/ F_Top(c)
    \/ F_Create(c)
    \/ F_ConnectOk(c)
    \/ F_ConnectFail(c)
    \/ F_SetConnected(c)
    \/ F_Inner(c)
    \/ F_RecvEOF(c)
    \/ F_RecvError(c)
    \/ F_Scan(c)
    \/ F_Lock(c)
    \/ \E ok \in BOOLEAN : F_Write(c, ok)
    \/ F_Remove(c)
    \/ F_Sleep(c)

\* the handlers of the gateway's requests
Handlers ==
    \/ \E r \in Requests : H_Poll(r)
    \/ \E r \in Requests, ok \in BOOLEAN : H_Check(r, ok)
    \/ \E r \in Requests : H_AddLock(r)
    \/ \E r \in Requests : H_AddAppend(r)
    \/ \E r \in Requests : H_KeepAlive(r)

Shutdown ==
    \/ Interrupt
    \/ P_Stop
    \/ M_StopFlag
    \/ M_StopClose

\* the hub with the worker of camera 0 streaming successive frames, each
\* recv returning all that is in flight, and viewers of camera 0
Next ==
    \/ ForwarderCtl(0)
    \/ F_RecvData(0, Len(wire[0]))
    \/ Up_Send(0, Len(HubPayload(nSent)), HubPayload(nSent))
    \/ Up_Close(0)
    \/ \E r \in Requests : G_AcceptCamera(r, 0)
    \/ \E r \in Requests : G_AcceptStatus(r)
    \/ Handlers
    \/ Shutdown

Spec == Init /\ [][Next]_vars

\* what the upstream of the framing specification may send, as
\* <<declared length, payload>>: a plain chunk, a payload that holds the
\* boundary token, and a chunk that declares one byte too many
FramingChunks ==
    { <<1, <<"a">>>>,
      <<3, <<"a", "--frame", "CRLF">>>>,
      <<2, <<"a">>>> }

\* the forwarder of camera 0 with one viewer, fed any of these chunks once
\* the viewer is registered, recv returning any non-empty prefix of what is
\* in flight
FramingNext ==
    \/ ForwarderCtl(0)
    \/ \E k \in 1..Len(wire[0]) : F_RecvData(0, k)
    \/ \E ch \in FramingChunks :
          clients[0] # <<>> /\ Up_Send(0, ch[1], ch[2])
    \/ Up_Close(0)
    \/ G_AcceptCamera(1, 0)
    \/ Handlers

SpecFraming == Init /\ [][FramingNext]_vars

\* the detection worker reading the raw feed of the camera worker, recv
\* returning any non-empty prefix of what is in flight
MjpegStart == HubInit /\ WorkerInit /\ proc = "detection"

MjpegNext ==
    \/ RM_Feed
    \/ RM_Call
    \/ \E k \in 1..Len(feed) : RM_Header(k)
    \/ RM_Split
    \/ \E k \in 1..Len(feed) : RM_Body(k)
    \/ RM_Cut

SpecMjpeg == MjpegStart /\ [][MjpegNext]_vars

\* the same, with a peer that may write other bytes ahead of its first chunk
ByteStreamNext ==
    \/ FramingNext
    \/ \E j \in Preambles : clients[0] # <<>> /\ Up_Preamble(0, j)

SpecByteStream == Init /\ [][ByteStreamNext]_vars

\* one forwarder thread
Forwarder(c) == ForwarderCtl(c) \/ F_RecvData(c, Len(wire[c]))

\* the hub with the forwarder of camera 0, its worker, one viewer and the
\* shutdown
LiveNext ==
    \/ Forwarder(0)
    \/ Up_Send(0, Len(HubPayload(nSent)), HubPayload(nSent))
    \/ Up_Close(0)
    \/ G_AcceptCamera(1, 0)
    \/ Handlers
    \/ Shutdown

\* the forwarder is a thread of its own that keeps being scheduled, and
\* none of its blocking calls blocks for ever: connect and recv run under
\* settimeout(5), sleep(5) returns
LiveSpec == Init /\ [][LiveNext]_vars /\ WF_vars(Forwarder(0))

\* the two workers, each serving its clients
WorkerNext ==
    \/ \E k \in Clients : CW_Accept(k)
    \/ \E k \in Clients : CW_Top(k)
    \/ \E k \in Clients : CW_Acquire(k)
    \/ \E k \in Clients, ret \in BOOLEAN : CW_Read(k, ret)
    \/ \E k \in Clients, ok \in BOOLEAN : CW_Encode(k, ok)
    \/ \E k \in Clients, ok \in BOOLEAN : CW_Send(k, ok)
    \/ \E k \in Clients : DW_Accept(k)
    \/ \E k \in Clients : DW_Top(k)
    \/ \E k \in Clients, ok \in BOOLEAN : DW_Read(k, ok)
    \/ \E k \in Clients, ok \in BOOLEAN : DW_Reinit(k, ok)
    \/ \E k \in Clients : DW_Detect(k)
    \/ \E k \in Clients, i \in LabelIdxs : DW_Label(k, i)
    \/ \E k \in Clients, ok \in BOOLEAN : DW_Encode(k, ok)
    \/ \E k \in Clients, ok \in BOOLEAN : DW_Send(k, ok)

SpecWorker == WorkerStart /\ [][WorkerNext]_vars

\* the supervisor on one of its paths, nothing else running
SupervisorStart ==
    /\ HubFields /\ PromptIdle /\ MainIdle /\ RunIdle /\ MjpegIdle
    /\ LabelIdle /\ PeerIdle
    /\ WorkerInit /\ proc = "camera" /\ SupervisorInit

SpecSupervisor == SupervisorStart /\ [][SupervisorNext]_vars

\* the hub process from __main__ on: the liveness check and remote start of
\* start(), then the forwarders and the web server
MainStart ==
    /\ HubFields /\ PromptIdle /\ MainInit /\ RunIdle /\ MjpegIdle
    /\ LabelIdle /\ PeerIdle
    /\ WorkerInit /\ proc = "camera"
    /\ SupervisorInit /\ trigger = "startup"

MainNext ==
    \/ mpc = "check" /\ SupervisorNext
    \/ M_Forwarders
    \/ \E ok \in BOOLEAN : M_Bind(ok)
    \/ M_HandlerError
    \/ M_ServeError
    \/ M_Interrupt

SpecMain == MainStart /\ [][MainNext]_vars

\* the gateway's /set_prompt requests, one after the other, against the
\* command loop of the detection worker: the loop accepts the connection the
\* hub has opened and reads what was delivered of the hub's payload
PromptStart == HubInit /\ WorkerInit /\ proc = "detection"

PromptNext ==
    \/ \E t \in Texts : Q_Send(t)
    \/ \E ok \in BOOLEAN : Q_Recv(ok)
    \/ qpc = "sent" /\ conn < qn /\ K_Accept
    \/ kpc = "recv" /\ \E e \in Delivered(qsent[conn]) : K_Recv(e)
    \/ K_SetText
    \/ K_SetPrompts
    \/ \E ok \in BOOLEAN : K_Respond(ok)
    \/ K_Close
    \/ K_Sleep

SpecPrompt == PromptStart /\ [][PromptNext]_vars

\* either worker with every client connected before the first frame is
\* captured: the handler threads have been started, nothing was read yet
ClientsConnected == HubInit /\ WorkerState("top") /\ proc \in Workers

CameraHandler(k) ==
    /\ proc = "camera"
    /\ \/ CW_Top(k)
       \/ CW_Acquire(k)
       \/ \E ret \in BOOLEAN : CW_Read(k, ret)
       \/ \E ok \in BOOLEAN : CW_Encode(k, ok)
       \/ \E ok \in BOOLEAN : CW_Send(k, ok)

DetectionHandler(k) ==
    /\ proc = "detection"
    /\ \/ DW_Top(k)
       \/ \E ok \in BOOLEAN : DW_Read(k, ok)
       \/ \E ok \in BOOLEAN : DW_Reinit(k, ok)
       \/ DW_Detect(k)
       \/ \E i \in LabelIdxs : DW_Label(k, i)
       \/ \E ok \in BOOLEAN : DW_Encode(k, ok)
       \/ \E ok \in BOOLEAN : DW_Send(k, ok)

StreamNext == \E k \in Clients : CameraHandler(k) \/ DetectionHandler(k)

SpecStream == ClientsConnected /\ [][StreamNext]_vars

\* the detection worker with its command channel: the command loop next to
\* the stream handler of one connected client, the camera delivering
CommandStart == HubInit /\ WorkerState("top") /\ proc = "detection"

CommandLoop ==
    \/ K_Accept
    \/ \E e \in Envelopes : K_Recv(e)
    \/ K_SetText
    \/ K_SetPrompts
    \/ \E ok \in BOOLEAN : K_Respond(ok)
    \/ K_Close
    \/ K_Sleep

DetectionCycle(k) ==
    \/ DW_Top(k)
    \/ DW_Read(k, TRUE)
    \/ DW_Detect(k)
    \/ \E i \in LabelIdxs : DW_Label(k, i)
    \/ \E ok \in BOOLEAN : DW_Encode(k, ok)
    \/ \E ok \in BOOLEAN : DW_Send(k, ok)

CommandNext == CommandLoop \/ DetectionCycle(1)

SpecCommand == CommandStart /\ [][CommandNext]_vars

\* the camera worker alone, clients connecting at any time
CameraNext == \E k \in Clients : CW_Accept(k) \/ CameraHandler(k)

SpecCamera == Init /\ [][CameraNext]_vars

\* either worker serving from a camera that delivers: clients connect at any
\* time, reads succeed (the camera worker's may also fail), encodes and
\* writes succeed or fail
ServeNext ==
    \E k \in Clients :
        \/ CW_Accept(k)
        \/ CameraHandler(k)
        \/ DW_Accept(k)
        \/ DetectionCycle(k)

SpecServe == WorkerStart /\ [][ServeNext]_vars

\* a worker process from run() on: init_camera, start_server, the accept
\* loop and the handler of the first client
RunStart ==
    /\ HubFields /\ SupervisorIdle /\ PromptIdle /\ MainIdle /\ MjpegIdle
    /\ LabelIdle /\ PeerIdle
    /\ WorkerInit /\ proc \in Workers
    /\ RunInit

RunNext ==
    \/ I_Open
    \/ I_Warm
    \/ I_Mjpeg
    \/ R_Init
    \/ \E ok \in BOOLEAN : R_StartServer(ok)
    \/ rpc = "accept" /\ \E k \in Clients : CW_Accept(k) \/ DW_Accept(k)
    \/ CameraHandler(1)
    \/ DetectionCycle(1)

SpecRun == RunStart /\ [][RunNext]_vars

\* the command loop with the worker being stopped at any moment
ShutdownNext ==
    \/ CommandLoop
    \/ DW_Stop
    \/ K_Exit

\* the steps of the command thread that need nothing from a peer: the test
\* of the flag, the processing of what was read, the response, the close
CommandThread ==
    \/ K_Exit
    \/ K_SetText
    \/ K_SetPrompts
    \/ \E ok \in BOOLEAN : K_Respond(ok)
    \/ K_Close
    \/ K_Sleep

\* the command thread keeps being scheduled; accept and recv return when a
\* peer connects or sends, which no peer has to do
SpecShutdown ==
    /\ CommandStart
    /\ [][ShutdownNext]_vars
    /\ WF_vars(CommandThread)

\* a capture source whose every read fails, warm-up reads included:
\* camera.read() gives ret = False, read_frame gives None, and init_camera
\* returns what its fallback init_mjpeg_input returns, True when the raw feed
\* accepts the connection
DeadSourceHandler(k) ==
    \/ /\ proc = "camera"
       /\ \/ CW_Top(k)
          \/ CW_Acquire(k)
          \/ CW_Read(k, FALSE)
    \/ /\ proc = "detection"
       /\ \/ DW_Top(k)
          \/ DW_Read(k, FALSE)
          \/ \E ok \in BOOLEAN : DW_Reinit(k, ok)

DeadSourceNext == \E k \in Clients : DeadSourceHandler(k)

\* every handler is a thread of its own that the scheduler keeps running
SpecDeadSource ==
    /\ ClientsConnected
    /\ [][DeadSourceNext]_vars
    /\ \A k \in Clients : WF_vars(DeadSourceHandler(k))

\* ------------------------------------------------------------ claims ---
Streaming == {"inner", "recv", "scan", "lock", "write"}

Last(s) == s[Len(s)]

\* position of r in the registry of camera c (0: not registered)
PosIn(c, r) ==
    IF r \in Range(clients[c])
    THEN CHOOSE i \in 1..Len(clients[c]) : clients[c][i] = r
    ELSE 0

\* frames of camera c already offered to the registered wfile r
Offered(c, r) ==
    Len(ingested[c])
      - (IF fpc[c] = "lock" \/ (fpc[c] = "write" /\ PosIn(c, r) >= idx[c])
         THEN 1 ELSE 0)

\* C2: connected is true only while the ingest loop is in its streaming
\* part on a socket whose connect succeeded; it is false in every other
\* position (before the first connect, connecting, waiting to retry, ended);
\* it turns true only by the assignment that follows a successful connect,
\* and every step that leaves the streaming part (recv error, timeout, EOF,
\* shutdown seen) leaves it false.
C2_Inv ==
    \A c \in Cams :
        /\ connected[c] => fpc[c] \in Streaming /\ jetson_socket[c] # "None"
        /\ fpc[c] \notin Streaming => ~connected[c]

C2_Step ==
    \A c \in Cams :
        /\ (~connected[c] /\ connected'[c]) =>
              fpc[c] = "connected_ok" /\ jetson_socket[c] \in {"connected", "closed"}
        /\ (fpc[c] \in Streaming /\ fpc'[c] \notin Streaming) =>
              ~connected'[c] /\ jetson_socket'[c] = "None"

C2_ConnectedFlag == []C2_Inv /\ [][C2_Step]_vars

\* C2 witness: a second streaming period, after a disconnect
C2_Witness ==
    connected[0] /\ fpc[0] = "recv" /\ connBase[0] > 0

\* C4: a fan-out in which the write to some consumer fails never leaves the
\* streaming part and never changes connected; when it ends, exactly the
\* consumers whose write failed are gone from the registry and every other
\* registered consumer has this chunk as its last written one.
C4_Step ==
    \A c \in Cams :
        fpc[c] = "write" =>
            /\ fpc'[c] \in {"write", "scan"}
            /\ connected'[c] = connected[c]
            /\ fpc'[c] = "scan" =>
                 /\ Range(clients'[c]) = {r \in Range(clients[c]) : ~failed[r]}
                 /\ \A r \in Range(clients'[c]) :
                        wrote'[r] # <<>> /\ Last(wrote'[r]) = frame_data[c]

C4_FanOutIsolation == [][C4_Step]_vars

\* C4 witness: a fan-out is over in which one write failed and another
\* consumer got the chunk
C4_Witness ==
    /\ fpc[0] = "write"
    /\ idx[0] > Len(clients[0])
    /\ dead_clients[0] # <<>>
    /\ \E r \in Range(clients[0]) :
          ~failed[r] /\ wrote[r] # <<>> /\ Last(wrote[r]) = frame_data[0]

\* C5: what a registered consumer has been written is exactly the run of
\* delimited frames from its registration up to the frame being fanned out,
\* in ingest order; so two consumers registered together hold equal
\* sequences from the later registration on.
C5_ContiguousRun ==
    \A c \in Cams : \A r \in Range(clients[c]) :
        r \notin Range(dead_clients[c]) =>
            /\ joinedAt[r] <= Offered(c, r)
            /\ wrote[r] = SubSeq(ingested[c], joinedAt[r] + 1, Offered(c, r))
            /\ \A q \in Range(clients[c]) :
                  (q \notin Range(dead_clients[c]) /\ fpc[c] # "write"
                     /\ joinedAt[q] <= joinedAt[r]) =>
                  wrote[r] = SubSeq(wrote[q], joinedAt[r] - joinedAt[q] + 1,
                                    Len(wrote[q]))

\* C5 witness: a consumer has been written two different frames
C5_Witness ==
    \E r \in Requests :
        Len(wrote[r]) >= 2 /\ wrote[r][1] # wrote[r][2] /\ r \in Range(clients[0])

\* C7: the fan-out (iterate, write, remove) and add_client are never inside
\* their critical sections on the same registry at the same time.
InRegistry(c) ==
    {r \in Requests : hpc[r] = "append" /\ hcam[r] = c}

C7_RegistryMutex ==
    \A c \in Cams :
        /\ Cardinality(InRegistry(c)) + (IF fpc[c] = "write" THEN 1 ELSE 0) <= 1
        /\ fpc[c] = "write" => lock[c] = "forward_frames"
        /\ InRegistry(c) # {} => lock[c] = "add_client"

\* C7 witness: a handler waits in add_client while the fan-out holds the lock
C7_Witness ==
    \E r \in Requests :
        hpc[r] = "add_client" /\ hcam[r] = 0 /\ fpc[0] = "write"

\* C8: a handle is added at most once and removed at most once, only after
\* having been added; it is removed in the very fan-out in which a write to
\* it first fails, and only then; nothing is written to it after its
\* removal; the removal leaves the ingest loop streaming.
C8_Inv ==
    \A r \in Requests :
        /\ nAdded[r] <= 1
        /\ nRemoved[r] <= nAdded[r]
        /\ nRemoved[r] = 1 => failed[r]
        /\ ~lateWrite[r]
        /\ \A c \in Cams :
              /\ (failed[r] /\ fpc[c] # "write") => r \notin Range(clients[c])
              /\ (r \in Range(clients[c])) => (nAdded[r] = 1 /\ nRemoved[r] = 0)
              /\ Cardinality({i \in 1..Len(clients[c]) : clients[c][i] = r}) <= 1

C8_Step ==
    \A c \in Cams :
        (clients'[c] # clients[c] /\ Len(clients'[c]) < Len(clients[c])) =>
            /\ fpc[c] = "write" /\ fpc'[c] = "scan"
            /\ connected'[c] = connected[c]
            /\ \A r \in Range(clients[c]) \ Range(clients'[c]) :
                  failed[r] /\ nRemoved'[r] = 1

C6_ConcurrentRequests ==
    \A r, q \in Requests :
        (hpc[r] = "keepalive" /\ httpd = "serving" /\ NextRequest(q)) =>
            ENABLED G_AcceptStatus(q)

\* C3: while running stays true the ingest loop does not end; a failed
\* connect, a recv error or timeout and an upstream EOF each lead to the
\* disconnected state (flag false, no socket) and to the retry delay; and
\* from the delay the forwarder always gets to a new connect attempt, unless
\* it has been stopped meanwhile.
C3_Step ==
    \A c \in Cams :
        /\ (fpc[c] # "done" /\ fpc'[c] = "done") => ~running[c]
        /\ (fpc[c] \in {"connecting", "recv"}
              /\ fpc'[c] \notin {fpc[c], "connected_ok", "scan"}) =>
                /\ ~connected'[c]
                /\ jetson_socket'[c] = "None"
                /\ fpc'[c] = IF running[c] THEN "sleep" ELSE "top"

C3_Reconnects ==
    /\ [][C3_Step]_vars
    /\ \A c \in Cams :
          (fpc[c] = "sleep") ~> (fpc[c] = "connecting" \/ ~running[c])

\* C3 witness: a connect attempt after a connection that delivered frames
C3_Witness ==
    \E c \in Cams :
        fpc[c] = "connecting" /\ ingested[c] # <<>> /\ running[c]

\* --- FramedChunk, read back from the bytes (spec section 3) ---
\* u is boundary line, Content-Type line, Content-Length: N, blank line,
\* N payload bytes, CRLF
IsFramedChunk(u) ==
    /\ Len(u) >= 9
    /\ u[1] = "--frame" /\ u[2] = "CRLF"
    /\ u[3] = "Content-Type: image/jpeg" /\ u[4] = "CRLF"
    /\ u[5] = "Content-Length: "
    /\ LET d == DigitRun(u, 6)
           N == Decimal(SubSeq(u, 6, 5 + d))
       IN  /\ d >= 1
           /\ d = 1 \/ u[6] # "0"
           /\ Len(u) = 8 + d + N
           /\ u[6 + d] = "CRLF" /\ u[7 + d] = "CRLF"
           /\ u[Len(u)] = "CRLF"

\* the N payload bytes of a framed chunk
ChunkPayload(u) == SubSeq(u, 8 + DigitRun(u, 6), Len(u) - 1)

\* the boundary token occurs in u at its start only
BoundaryOnlyAtStart(u) ==
    \A i \in 2..(Len(u) - 1) : ~(u[i] = "--frame" /\ u[i + 1] = "CRLF")

RECURSIVE TotalLen(_)
TotalLen(ss) == IF ss = <<>> THEN 0 ELSE Len(Head(ss)) + TotalLen(Tail(ss))

\* frames delimited on the current upstream connection of camera c
ConnFrames(c) == SubSeq(ingested[c], connBase[c] + 1, Len(ingested[c]))

\* chunks of the current connection whose boundary token has been received
BoundariesReceived(c) ==
    Cardinality({i \in 1..Len(sent[c]) :
        TotalLen(SubSeq(sent[c], 1, i - 1)) + Len(Boundary)
            <= TotalLen(sent[c]) - Len(wire[c])})

C9_NeverMalformed ==
    \A r \in Requests : \A i \in 1..Len(wrote[r]) : IsFramedChunk(wrote[r][i])

\* C10: the unit a stream handler of either worker writes is the boundary
\* line, the Content-Type line, Content-Length: N, a blank line, N payload
\* bytes and CRLF, where the payload is the encoded frame of that iteration
\* and N its length.
C10_UnitFormat ==
    \A w \in Workers : \A k \in Clients :
        sent_unit[w][k] # <<>> =>
            /\ IsFramedChunk(sent_unit[w][k])
            /\ ChunkPayload(sent_unit[w][k]) = sent_jpeg[w][k]
            /\ Decimal(SubSeq(sent_unit[w][k], 6, 5 + DigitRun(sent_unit[w][k], 6)))
                  = Len(sent_jpeg[w][k])

\* C10 witness: a handler has written a unit with a two-digit length and
\* the bytes of the boundary token in its payload
C10_Witness ==
    \E k \in Clients :
        /\ Len(sent_jpeg["detection"][k]) >= 10
        /\ ~BoundaryOnlyAtStart(sent_unit["detection"][k])
        /\ dpc[k] = "top"


\* handlers of the camera worker inside "with self.camera_lock:", and
\* handlers of the detection worker inside read_frame or init_camera
CameraReaders == {k \in Clients : cpc[k] = "read"}
DetectionReaders == {k \in Clients : dpc[k] \in {"read", "reinit"}}

\* C11: in neither worker are two client handlers reading (or
\* reinitialising) the shared capture source at the same time.
C11_CaptureMutex ==
    /\ Cardinality(CameraReaders) <= 1
    /\ Cardinality(DetectionReaders) <= 1


\* the frames the camera of worker w has delivered, and the handler
\* positions of w
Captured(w) == IF w = "camera" THEN ccount ELSE dcount
AllFrames == [i \in 1..MaxFrames |-> i]

\* C12: with every client connected before the first frame, once the source
\* has delivered its whole sequence and each of its frames has been written
\* to some client, each client has been written every frame, in order.
C12_EveryFrameToBoth ==
    \A w \in Workers :
        (/\ proc = w
         /\ Captured(w) = MaxFrames
         /\ UNION {Range(got[w][k]) : k \in Clients} = 1..MaxFrames)
        => \A k \in Clients : got[w][k] = AllFrames


\* self.running of the worker a behaviour follows
WorkerRunning == IF proc = "camera" THEN cw_running ELSE dw_running

\* C13: with a capture source whose every read fails, a worker that has
\* clients connected reaches running = false; it does not retry forever.
C13_FatalShutdown == <>(~WorkerRunning)


\* the command loop is through with connection n: it is back at accept (or
\* in the outer except's sleep) or has accepted a later connection
Handled(n) == n < conn \/ (n = conn /\ kpc \in {"accept", "sleep"})

\* the data read from connection conn is at hand
DataRead == conn >= 1 /\ kpc # "recv"

\* C14: for every accepted connection the server is through with, whatever
\* the client sent, exactly one response was written (connections whose
\* write failed because the peer was gone are left aside).
C14_ExactlyOneResponse ==
    \A n \in Conns : (Handled(n) /\ cstat[n] # "lost") => nresp[n] = 1

\* JSON that is no object, text that is no JSON, a field of the wrong type
Malformed(e) ==
    \/ e.kind \in {"not_json", "not_object"}
    \/ e.kind = "set_prompt" /\ e.text = NonString

\* C15 (state part): once the response to a malformed envelope is written,
\* it is the one response of the connection and is UNKNOWN or an error
\* text; the connection is closed, and back at accept the loop still runs:
\* the next connection can be accepted.
C15_Inv ==
    (DataRead /\ Malformed(data) /\ cstat[conn] # "lost") =>
        /\ kpc \in {"settext", "respond", "close", "accept"}
        /\ kpc \in {"close", "accept"} =>
              /\ nresp[conn] = 1
              /\ resp[conn] \in ErrorTexts \cup {"UNKNOWN"}
        /\ kpc = "accept" =>
              /\ cstat[conn] = "closed"
              /\ (dw_running /\ conn < MaxCmds) => ENABLED K_Accept

\* C15 (step part): the connection served after one that was answered with
\* UNKNOWN or an error text gets the response of its own envelope: OK with
\* the prompts replaced for a set_prompt with a string, else what ReplyTo says.
C15_Step ==
    (/\ conn >= 2
     /\ resp[conn - 1] \in ErrorTexts \cup {"UNKNOWN"}
     /\ nresp'[conn] = nresp[conn] + 1)
    => IF data.kind = "set_prompt" /\ data.text # NonString
       THEN resp'[conn] = "OK" /\ prompts = Split(data.text)
       ELSE IF data.kind = "set_prompt" THEN resp'[conn] = AttributeError
       ELSE resp'[conn] = ReplyTo(data)

OtherCommand(e) == e.kind \in {"bogus", "no_cmd"}

\* C16 (state part): the response to a JSON object whose cmd is not
\* set_prompt is UNKNOWN, the one response of its connection.
C16_Inv ==
    (DataRead /\ OtherCommand(data) /\ cstat[conn] # "lost") =>
        /\ kpc \in {"respond", "close", "accept"}
        /\ kpc = "respond" => reply = "UNKNOWN"
        /\ kpc \in {"close", "accept"} =>
              nresp[conn] = 1 /\ resp[conn] = "UNKNOWN"

\* C16 (step part): from reading such an envelope to the end of its
\* connection no step changes prompt_text or prompts.
C16_Step ==
    (\/ kpc = "recv" /\ kpc' # "recv" /\ OtherCommand(data')
     \/ DataRead /\ OtherCommand(data) /\ kpc \in {"respond", "close"})
    => UNCHANGED <<prompt_text, prompts>>

C16_UnknownCommand == []C16_Inv /\ [][C16_Step]_vars

\* C16 witness: an object without cmd, read after a set_prompt had replaced
\* the prompts, was answered UNKNOWN and the prompts are still those
C16_Witness ==
    /\ conn = 2
    /\ resp[1] = "OK"
    /\ data.kind = "no_cmd"
    /\ resp[2] = "UNKNOWN"
    /\ prompts = <<<<"c">>>>
    /\ prompt_text = <<"c">>

\* C17 (state part): a set_prompt with a string T is answered OK, once, and
\* from the response on prompts holds the pieces of T between ", ".
C17_Inv ==
    /\ (DataRead /\ data.kind = "set_prompt" /\ data.text # NonString
          /\ cstat[conn] # "lost" /\ kpc \in {"close", "accept"})
       => nresp[conn] = 1 /\ resp[conn] = "OK" /\ acked = data.text
    /\ acked # None => prompts = Split(acked) /\ prompt_text = acked
    /\ Split(<<"a", ",", " ", "b">>) = <<<<"a">>, <<"b">>>>

\* C17 (step part): a detection cycle that calls the predictor while T is
\* the text of the last set_prompt answered OK (and no later set_prompt has
\* been read) passes it exactly the pieces of T.
C17_Step ==
    \A k \in Clients :
        (dpc[k] = "detect" /\ dpc'[k] = "label" /\ acked # None)
        => dlabels'[k] = Split(acked)

C17_SetPrompt == []C17_Inv /\ [][C17_Step]_vars

\* C17 witness: two set_prompt connections were answered OK, the second with
\* the text of two labels, and a detection cycle after it passed the
\* predictor those two labels
C17_Witness ==
    /\ conn = 2
    /\ resp[1] = "OK"
    /\ resp[2] = "OK"
    /\ acked = <<"a", ",", " ", "b">>
    /\ dpc[1] = "encode"
    /\ dlabels[1] = <<<<"a">>, <<"b">>>>
    /\ Len(dlabels[1]) = 2


\* C18 (state part): a /camera request has made at most 20 polls and is
\* never stuck in its wait loop; one answered 503 has returned and was
\* never registered as a consumer; one that was registered was answered 200.
C18_Inv ==
    \A r \in Requests :
        /\ wait_time[r] <= WaitPolls
        /\ hpc[r] = "wait" => ENABLED H_Poll(r)
        /\ response[r] = "503" => nAdded[r] = 0 /\ hpc[r] = "done"
        /\ hpc[r] \in {"add_client", "append"} => response[r] = "200"
        /\ hpc[r] = "append" => ENABLED H_AddAppend(r)
        /\ nAdded[r] > 0 => response[r] = "200"

\* C18 (step part): every poll finds connected false and counts one more
\* half second; the wait loop is left only when connected is true or after
\* 20 polls; then a false connected gives 503 and the return, a true one the
\* 200 header and the way to add_client (or the return, when the write of
\* the header fails); a handler the interrupt of the process ends is left
\* aside.
C18_Step ==
    \A r \in Requests :
        /\ (hpc[r] = "wait" /\ wait_time'[r] # wait_time[r] /\ hpc'[r] = "wait")
           => ~connected[hcam[r]] /\ wait_time'[r] = wait_time[r] + 1
        /\ (hpc[r] = "wait" /\ hpc'[r] = "check")
           => connected[hcam[r]] \/ wait_time[r] = WaitPolls
        /\ (hpc[r] = "check" /\ hpc'[r] # "check" /\ pstop' = pstop)
           => IF ~connected[hcam[r]]
              THEN response'[r] = "503" /\ hpc'[r] = "done"
              ELSE response'[r] = "200" /\ hpc'[r] \in {"add_client", "done"}

C18_BoundedWait == []C18_Inv /\ [][C18_Step]_vars

\* C18 witness: a first request was answered 503, and a second one has made
\* its 20 polls with connected still false
C18_Witness ==
    /\ response[1] = "503"
    /\ hpc[2] = "wait"
    /\ wait_time[2] = WaitPolls
    /\ ~connected[hcam[2]]


\* the ingest thread of camera c is inside client.write/flush for a consumer
\* whose wfile is open: the call has not returned (a consumer that does not
\* read keeps it there)
WritePending(c) ==
    /\ fpc[c] = "write"
    /\ idx[c] <= Len(clients[c])
    /\ CanWrite(clients[c][idx[c]])

\* C19: while a write to one consumer has not returned, the ingest loop can
\* still read the bytes the upstream has sent (and so go on to serve the
\* other consumers with the chunks after this one).
C19_NoHeadOfLineBlocking ==
    \A c \in Cams :
        (WritePending(c) /\ wire[c] # <<>>)
            => ENABLED F_RecvData(c, Len(wire[c]))


\* handlers of the camera worker that hold a frame and are encoding or
\* writing it
Stalled == {k \in Clients : cpc[k] \in {"encode", "send"}}

\* C20: a handler of the camera worker that is in encode or in the socket
\* write does not hold the capture lock: the lock is held only inside the
\* read, and whatever handlers are in encode or write, a handler waiting for
\* the lock while nobody reads can take it, and a handler's own read, encode
\* and write can proceed.
C20_StalledHoldsNoLock ==
    /\ \A k \in Stalled : camera_lock # k
    /\ camera_lock # 0 => cpc[camera_lock] = "read"
    /\ \A j \in Clients :
          /\ (cpc[j] = "lock" /\ CameraReaders = {}) => ENABLED CW_Acquire(j)
          /\ (cpc[j] = "read" /\ ccount < MaxFrames) => ENABLED CW_Read(j, TRUE)
          /\ cpc[j] = "encode" => ENABLED CW_Encode(j, TRUE)
          /\ cpc[j] = "send" => ENABLED CW_Send(j, TRUE)

\* C20 witness: handler 1 read the first frame and has been in its write
\* since, while handler 2 read, encoded and sent the two frames after it
C20_Witness ==
    /\ cpc[1] = "send"
    /\ cframe[1] = 1
    /\ got["camera"][1] = <<>>
    /\ got["camera"][2] = <<2, 3>>


\* a write to client k fails in this step: its handler leaves the loop and
\* closes the client socket
CameraSendFails(k) == cpc[k] = "send" /\ cpc'[k] = "done"
DetectionSendFails(k) == dpc[k] = "send" /\ dpc'[k] = "done"

\* C21 (step part): a failed write ends the handler of that client alone:
\* the camera stays as it is, running stays as it is, the capture lock and
\* the position of every other handler are untouched.
C21_Step ==
    \A k \in Clients :
        /\ CameraSendFails(k) =>
              /\ UNCHANGED <<cw_running, cw_camera, camera_lock, ccount>>
              /\ \A j \in Clients \ {k} : cpc'[j] = cpc[j]
        /\ DetectionSendFails(k) =>
              /\ UNCHANGED <<dw_running, dcount>>
              /\ \A j \in Clients \ {k} : dpc'[j] = dpc[j]

\* C21 (state part): whichever handlers have ended, the worker is running
\* with its camera open, the accept loop takes a further client and a
\* handler in its loop can take its next step.
C21_Inv ==
    /\ proc = "camera" =>
          /\ cw_running /\ cw_camera = "open"
          /\ \A j \in Clients :
                /\ cpc[j] = "idle" => ENABLED CW_Accept(j)
                /\ cpc[j] = "top" => ENABLED CW_Top(j)
                /\ cpc[j] = "encode" => ENABLED CW_Encode(j, TRUE)
                /\ cpc[j] = "send" => ENABLED CW_Send(j, TRUE)
    /\ proc = "detection" =>
          /\ dw_running
          /\ \A j \in Clients :
                /\ dpc[j] = "idle" => ENABLED DW_Accept(j)
                /\ dpc[j] = "top" => ENABLED DW_Top(j)
                /\ dpc[j] = "detect" => ENABLED DW_Detect(j)
                /\ dpc[j] = "label" => ENABLED DW_Label(j, 0)
                /\ dpc[j] = "encode" => ENABLED DW_Encode(j, TRUE)
                /\ dpc[j] = "send" => ENABLED DW_Send(j, TRUE)

C21_WriteFailureIsLocal == []C21_Inv /\ [][C21_Step]_vars

\* C21 witness: the handler of client 1 has ended on a failed write of the
\* first frame, and the handler of client 2 has streamed the frames after it
C21_Witness ==
    /\ proc = "detection"
    /\ dpc[1] = "done"
    /\ dframe[1] = 1
    /\ got["detection"][1] = <<>>
    /\ got["detection"][2] = <<2, 3>>
    /\ dw_running


\* the ports of the list that do not accept a connection, by their position
FailingAt == {i \in 1..Len(PortList) : port_state[PortList[i]] # "open"}
FirstFailing == CHOOSE i \in FailingAt : \A j \in FailingAt : i <= j

\* C22: a completed liveness check returns healthy with no port exactly when
\* every port of the list accepts the connection; otherwise it returns
\* unhealthy with the first port of the list that does not, and has probed
\* the ports up to that one and none after it.
C22_FirstFailingPort ==
    spc = "checked" =>
        IF FailingAt = {}
        THEN /\ verdict = [healthy |-> TRUE, port |-> NoPort]
             /\ probed = PortList
        ELSE /\ verdict = [healthy |-> FALSE, port |-> PortList[FirstFailing]]
             /\ probed = SubSeq(PortList, 1, FirstFailing)

\* C22 witness: of three ports the second and the third are closed; the
\* check reported the second and did not probe the third
C22_Witness ==
    /\ spc = "checked"
    /\ trigger = "controller"
    /\ port_state = (9000 :> "open" @@ 9001 :> "closed" @@ 9002 :> "closed")
    /\ verdict = [healthy |-> FALSE, port |-> 9001]
    /\ probed = <<9000, 9001>>

\* C23: on every path, when the path has ended after a remote start was
\* issued, the command was issued once, the liveness check was re-run once
\* after it, and the reported outcome is the result of that check.
C23_RecheckOnceThenReport ==
    (spc = "done" /\ nissued >= 1) =>
        /\ nissued = 1
        /\ rechecks = 1
        /\ reported = IF verdict.healthy THEN "success" ELSE "failure"


\* C24: a /set_prompt request that read a result from the command channel
\* answers with it: 200 for OK, and for any other result (UNKNOWN or an
\* error text) a response whose body is that text; the request opened one
\* command connection.
C24_RelaysResult ==
    (qpc = "done" /\ qresp # "None") =>
        /\ qconns = qn
        /\ data.kind = "set_prompt" => data.text = qtext
        /\ qresp = "OK" => http_status = "200"
        /\ qresp # "OK" => http_body = qresp


\* C25: the hub process ends only by an explicit shutdown signal.
C25_OnlySignalTerminates ==
    mpc = "exited" => exit_cause = "signal"


\* a strategy satisfies both conditions: it opens and one of its warm-up
\* reads succeeds
Qualifies(s) == backends[s].opens /\ backends[s].warm >= 1

\* the first strategy of the worker's list that satisfies both, if any
FirstQualifying(w) ==
    LET L == StrategiesOf(w)
        Q == {i \in DOMAIN L : Qualifies(L[i])}
    IN IF Q = {} THEN "none"
       ELSE L[CHOOSE i \in Q : \A j \in Q : i <= j]

\* C26: init_camera ends with the first strategy of the list that opens and
\* passes a warm-up read selected, and fails only when there is none.
C26_FirstQualifyingSelected ==
    (ipc \in {"done", "failed"}) =>
        IF FirstQualifying(proc) = "none"
        THEN ipc = "failed"
        ELSE ipc = "done" /\ source = FirstQualifying(proc)


\* C27: once the running flag of the detection worker is false, its
\* command loop eventually terminates, whatever the peers do.
C27_LoopTerminates ==
    (~dw_running) ~> (kpc = "exited")


\* a handler is calling init_camera to reinitialise the source (the handler
\* of the camera worker has no such call)
Reinitialising == \E k \in Clients : dpc[k] = "reinit"

\* C28: in a worker whose reads keep failing, a handler eventually uses up
\* the run of 10 failed reads and attempts the reinitialisation.
C28_ReinitAfterBudget == <>Reinitialising


NoStreamClient ==
    /\ \A k \in Clients : cpc[k] = "idle" /\ dpc[k] = "idle"
    /\ \A w \in Workers : \A k \in Clients : got[w][k] = <<>>

\* C30: a worker whose init_camera has failed has not bound its stream port
\* and has no client, and run() is returning or has returned.
C30_InitFailureIsFatal ==
    (ipc = "failed") =>
        /\ ~bound
        /\ rpc \in {"init", "returned"}
        /\ NoStreamClient

\* C30 witness: every strategy of the detection worker was tried, none was
\* selected, and run() has returned without binding
C30_Witness ==
    /\ proc = "detection"
    /\ ipc = "failed"
    /\ tried = {"gstreamer", "default", "mjpeg"}
    /\ rpc = "returned"
    /\ ~bound


\* the concatenation of a sequence of byte strings
RECURSIVE Concat(_)
Concat(ss) == IF ss = <<>> THEN <<>> ELSE Head(ss) \o Concat(Tail(ss))

\* the bytes recv has returned on the current upstream connection of camera
\* c: what the peer wrote less what is still in flight
Received(c) ==
    SubSeq(Concat(sent[c]), 1, TotalLen(sent[c]) - Len(wire[c]))

\* s with everything before its first boundary token removed
FromFirstBoundary(s) ==
    IF Find(s, 1) = 0 THEN s ELSE SubSeq(s, Find(s, 1), Len(s))

\* every chunk cut out so far starts with the boundary token and holds no
\* other occurrence of it
ChunksWellCut(c) ==
    \A i \in 1..Len(ingested[c]) :
        MatchAt(ingested[c][i], 1) /\ Find(ingested[c][i], 2) = 0

\* C31 (as stated): between two recv calls the chunks forwarded on the
\* connection followed by the residual buffer are the bytes received with
\* everything before the first boundary token removed, and every chunk is
\* well cut.
C31_ByteConservation ==
    /\ ChunksWellCut(0)
    /\ fpc[0] \in {"inner", "recv"} =>
          Concat(ConnFrames(0)) \o buffer[0] = FromFirstBoundary(Received(0))

\* C31 (as the code has it): the bytes ahead of the first boundary token
\* leave the buffer only when the first chunk is cut out; until then the
\* residual buffer is all that was received.
C31_ConservationAfterFirstCut ==
    /\ ChunksWellCut(0)
    /\ fpc[0] \in {"inner", "recv"} =>
          Concat(ConnFrames(0)) \o buffer[0] =
             IF ConnFrames(0) = <<>> THEN Received(0)
             ELSE FromFirstBoundary(Received(0))

\* C31 witness: on a connection that began with other bytes, two chunks
\* have been cut out and part of a third is in the buffer
C31_Witness ==
    /\ fpc[0] = "recv"
    /\ sent[0] # <<>> /\ sent[0][1] \in Preambles
    /\ Len(ConnFrames(0)) = 2
    /\ buffer[0] # <<>>
    /\ Received(0) # FromFirstBoundary(Received(0))


\* the last n bytes of s
Suffix(s, n) == SubSeq(s, Len(s) - n + 1, Len(s))

\* C32: while a connection is being read, the chunks cut out on it and the
\* residual buffer are made of bytes received on that connection alone:
\* together they are a suffix of what recv has returned on it, so nothing
\* left over from an earlier connection is part of any chunk.
C32_BufferPerConnection ==
    fpc[0] \in Streaming =>
        LET held == Concat(ConnFrames(0)) \o buffer[0]
        IN /\ Len(held) <= Len(Received(0))
           /\ held = Suffix(Received(0), Len(held))

\* C32 witness: a chunk has been cut out on a connection that follows one
\* which ended with bytes of an unfinished chunk in the buffer
C32_Witness ==
    /\ fpc[0] \in Streaming
    /\ connBase[0] >= 1
    /\ Len(ConnFrames(0)) >= 1


\* the calls of read_mjpeg_frame have returned the payloads framed by the
\* camera worker, one per call and in order
ExtractsFramed ==
    /\ Len(extracted) <= Len(framed)
    /\ extracted = SubSeq(framed, 1, Len(extracted))
    /\ ncalls = Len(extracted)
    /\ mjpc = "body" => length = Len(framed[Len(extracted) + 1])

\* what is still to be read of the feed starts with a boundary token (or
\* with the part of one that has been written)
AtBoundary(s) ==
    \A i \in 1..Len(Boundary) : i <= Len(s) => s[i] = Boundary[i]

C34_RegistryLive ==
    \A c \in Cams :
        /\ \A r \in Range(clients[c]) : hpc[r] = "keepalive" /\ hcam[r] = c
        /\ Len(clients[c]) =
              Cardinality({r \in Requests : hpc[r] = "keepalive" /\ hcam[r] = c})


\* the camera ids a request path may carry: int() accepts a sign
CameraIds == (-NumCams - 1)..NumCams

\* the forwarder thread of camera c connecting, losing its connection and
\* retrying, with no frame received
ForwarderConnect(c) ==
    \/ F_Top(c)
    \/ F_Create(c)
    \/ F_ConnectOk(c)
    \/ F_ConnectFail(c)
    \/ F_SetConnected(c)
    \/ F_Inner(c)
    \/ F_RecvError(c)
    \/ F_Sleep(c)

\* the gateway receiving /camera/<id> for any integer id, in front of
\* forwarders that connect and reconnect
IdsNext ==
    \/ \E c \in Cams : ForwarderConnect(c)
    \/ \E r \in Requests, id \in CameraIds : G_AcceptCamera(r, id)
    \/ Handlers

SpecIds == Init /\ [][IdsNext]_vars

\* C35: GET /camera/<id> with an integer id outside 0..NumCams-1, negative
\* ids included, is answered 404 at once and changes no registry.
C35_UnknownCamera404 ==
    [][\A r \in Requests, id \in CameraIds \ Cams :
          G_AcceptCamera(r, id) =>
              /\ hpc'[r] = "done"
              /\ response'[r] = "404"
              /\ clients' = clients]_vars


\* C36 (state part): but while a set_prompt is between its two assignments,
\* prompts holds the pieces of prompt_text between ", ".
C36_Inv == kpc # "setprompts" => prompts = Split(prompt_text)

\* C36 (step part): a step that prepares a response other than OK leaves
\* prompt_text and prompts as they were; with the state part, they are as
\* before the connection.
C36_Step ==
    (kpc # "respond" /\ kpc' = "respond" /\ reply' # "OK")
    => UNCHANGED <<prompt_text, prompts>>

C36_ErrorLeavesPrompt == []C36_Inv /\ [][C36_Step]_vars


\* C37: in a detection cycle that names a box, the list of labels it names
\* the box from is the list it passed to the predictor, and the label of the
\* box is one of the labels the predictor was given, whatever set_prompt
\* does meanwhile.
C37_SameLabelList ==
    \A k \in Clients :
        (dpc[k] \in {"encode", "send"} /\ label_str[k] # NoLabel) =>
            /\ naming[k] = dlabels[k]
            /\ label_str[k] \in Range(dlabels[k])


\* a peer of the command port sends its envelope (send_prompt_to_jetson:
\* connect, sendall); the listening socket's backlog takes the connection
\* before accept() returns it
Peer_Send(c) ==
    /\ proc = "detection"
    /\ ~csent[c]
    /\ csent' = [csent EXCEPT ![c] = TRUE]
    /\ UNCHANGED peerOthers

\* envelopes that are JSON objects
ObjectEnvelopes ==
    {e \in Envelopes : e.kind \in {"set_prompt", "bogus", "no_cmd"}}

\* conn.recv(4096) returns once the peer of the connection in hand has sent
RecvSent ==
    /\ kpc = "recv"
    /\ csent[conn]
    /\ \E e \in ObjectEnvelopes : K_Recv(e)

\* the command thread in front of peers that stay connected and send their
\* envelope when they please, or never
PeersNext ==
    \/ \E c \in Conns : Peer_Send(c)
    \/ K_Accept
    \/ RecvSent
    \/ K_SetText
    \/ K_SetPrompts
    \/ K_Respond(TRUE)
    \/ K_Close

\* the command thread keeps being scheduled, accept returns the connection
\* waiting and recv the bytes that have arrived; no peer has to send
SpecPeers ==
    /\ CommandStart
    /\ [][PeersNext]_vars
    /\ WF_vars(K_Accept)
    /\ WF_vars(RecvSent)
    /\ WF_vars(K_SetText \/ K_SetPrompts \/ K_Respond(TRUE) \/ K_Close)

\* C38: every peer of the command port that has sent a JSON object
\* eventually has its response, whether or not a peer accepted before it
\* ever sends.
C38_EveryEnvelopeAnswered ==
    \A c \in Conns : csent[c] ~> (nresp[c] = 1)


\* PiServer.stop has called stop() of forwarder c and the call has returned
StopReturned(c) == ~running[c] /\ stop_i > c

\* C39 (step part): once stop() of the forwarder of camera 0 has returned,
\* no step sets its connected flag and no step writes a chunk to one of its
\* viewers.
C39_Step ==
    StopReturned(0) =>
        /\ connected'[0] => connected[0]
        /\ \A r \in Requests : hcam[r] = 0 => wrote'[r] = wrote[r]

\* C39 (progress part): from then on the ingest loop eventually ends, with
\* connected false and no upstream socket held.
C39_Ends ==
    StopReturned(0) ~>
        (fpc[0] = "done" /\ ~connected[0] /\ jetson_socket[0] = "None")

\* C39: after MJPEGForwarder.stop() has returned, connected never becomes
\* true again, no further chunk is written to any consumer, and the ingest
\* loop eventually terminates with connected false and no socket.
C39_StopIsFinal == [][C39_Step]_vars /\ C39_Ends

=============================================================================
